---- MODULE Spec2Model ----
(***************************************************************************)
(* Remote command execution engine of the sandbox SDK (BoxHandle.run).     *)
(*                                                                         *)
(* The model follows src/src/models.ts: the current BoxHandle (lines        *)
(* 611-1159: polling without callbacks, SSE streaming with callbacks) and  *)
(* the earlier polling-only BoxHandle (lines 1185-1398: polling with       *)
(* callbacks and per-command output cursors), and the SSE helpers of       *)
(* src/unnamed/part_000.                                                   *)
(*                                                                         *)
(* Text is a sequence of one-character strings for command output, and a   *)
(* sequence of tokens for the SSE wire text: a line break, an              *)
(* "event: <type>" line or a "data: <json>" line.  A JSON document is the  *)
(* record it parses to; a document that does not parse is MalformedJson.   *)
(* An absent (undefined) field is a field missing from the record.         *)
(*                                                                         *)
(* The frame decoder is also modelled on the bytes of the connection       *)
(* (SpecDecoder: chunk.toString(), split, trim, parseSSEStream on          *)
(* characters), and BoxHandle.waitUntilReady / stop with                   *)
(* Devento.withSandbox of src/unnamed/part_004 as SpecBox.                 *)
(***************************************************************************)
EXTENDS Integers, Sequences, FiniteSets, TLC

\* ------------------------------------------------------------- bounds
MaxTimeout == 1      \* caller timeouts are drawn from 1..MaxTimeout
MaxChunks == 3       \* stream chunks delivered to one call
MaxPolls == 2        \* snapshot fetches of one polling call
MaxWrites == 2       \* pieces of output the remote command writes
MaxFrames == 2       \* pieces (frames, stray lines) of one wire text of the decoder
MaxRefreshes == 3    \* status requests of one waitUntilReady call
MaxStops == 2        \* stop() calls on one handle

MaxNow == MaxTimeout + 1   \* the clock stops once every deadline can have passed

\* ------------------------------------------------------------- values
QUEUED == "queued"
RUNNING == "running"
DONE == "done"
FAILED == "failed"
ERROR == "error"

CommandState == {QUEUED, RUNNING, DONE, FAILED, ERROR}

TerminalStates == {DONE, FAILED, ERROR}

RemoteTimeoutDefault == 30000

Has(r, f) == f \in DOMAIN r

\* x || d for an optional field of a response or payload
GetOr(r, f, d) == IF Has(r, f) THEN r[f] ELSE d

E == <<>>

\* ------------------------------------------------------------- outcomes
Result(out, err, code, st) ==
    [kind |-> "result", stdout |-> out, stderr |-> err, exitCode |-> code, state |-> st]

CommandTimeoutError(id, t) == [kind |-> "CommandTimeoutError", commandId |-> id, timeout |-> t]

Failure(msg) == [kind |-> "Error", message |-> msg]

\* A promise settles once: resolve/reject after the first are ignored.  For the
\* async run() the single return/throw is the settlement.
SettleTwice(outs, o) == Append(outs, o)

Settle(outs, o) == IF outs = <<>> THEN <<o>> ELSE outs

\* ------------------------------------------------------------- run(): options
\* options?.timeout: a missing field is undefined (no deadline)
TimeoutOf(o) == GetOr(o, "timeout", 0)

OnlyStdoutStreams(o) == o.onStdout

UseStreaming(o) == o.onStdout \/ o.onStderr

\* timeout && Date.now() - startTime > timeout
DeadlineIgnoresOption(o, t0, t) == t - t0 > TimeoutOf(o)

DeadlinePassed(o, t0, t) == TimeoutOf(o) # 0 /\ t - t0 > TimeoutOf(o)

\* cmd.exit_code || (cmd.status === DONE ? 0 : 1)
ExitDefault(st) == IF st = DONE THEN 0 ELSE 1

ExitCodeOf(c) == IF Has(c, "exit_code") /\ c.exit_code # 0 THEN c.exit_code ELSE ExitDefault(c.status)

PollResultNoOutput(c) == Result(E, E, ExitCodeOf(c), c.status)

PollResult(c) == Result(GetOr(c, "stdout", E), GetOr(c, "stderr", E), ExitCodeOf(c), c.status)

\* ------------------------------------------------------------- text
\* String.prototype.split(sep) for a one-element separator
RECURSIVE SplitFrom(_, _, _)
SplitFrom(text, sep, cur) ==
    IF text = <<>> THEN <<cur>>
    ELSE IF Head(text) = sep THEN <<cur>> \o SplitFrom(Tail(text), sep, <<>>)
    ELSE SplitFrom(Tail(text), sep, Append(cur, Head(text)))

Split(text, sep) == SplitFrom(text, sep, <<>>)

\* lines.forEach((line, index) => { if (index < lines.length - 1 || line) cb(line) })
CompleteLinesOnly(text) ==
    LET ls == Split(text, "\n")
    IN  SubSeq(ls, 1, Len(ls) - 1)

CallbackLines(text) ==
    LET ls == Split(text, "\n")
    IN  IF ls[Len(ls)] = <<>> THEN SubSeq(ls, 1, Len(ls) - 1) ELSE ls

\* ------------------------------------------------------------- SSE wire text
LFt == [k |-> "lf"]
EventLine(e) == [k |-> "event", e |-> e]
DataLine(d) == [k |-> "data", d |-> d]

\* the remainder of a "data: " line that is the empty string
NoText == [empty |-> TRUE]

\* a remainder JSON.parse throws on
MalformedJson == [malformed |-> TRUE]

\* text.split("\n\n")
RECURSIVE SplitBlankFrom(_, _)
SplitBlankFrom(text, cur) ==
    IF text = <<>> THEN <<cur>>
    ELSE IF Len(text) >= 2 /\ text[1] = LFt /\ text[2] = LFt
         THEN <<cur>> \o SplitBlankFrom(SubSeq(text, 3, Len(text)), <<>>)
    ELSE SplitBlankFrom(Tail(text), Append(cur, Head(text)))

SplitBlank(text) == SplitBlankFrom(text, <<>>)

\* String.prototype.trim(): line breaks are the only white space of the wire text
RECURSIVE TrimLeft(_)
TrimLeft(text) == IF text # <<>> /\ Head(text) = LFt THEN TrimLeft(Tail(text)) ELSE text

RECURSIVE TrimRight(_)
TrimRight(text) ==
    IF text # <<>> /\ text[Len(text)] = LFt THEN TrimRight(SubSeq(text, 1, Len(text) - 1)) ELSE text

Trim(text) == TrimRight(TrimLeft(text))

\* the for loop of parseSSEMessage: the last "event: " and the last "data: " line win
RECURSIVE ScanLines(_, _)
ScanLines(lines, acc) ==
    IF lines = <<>> THEN acc
    ELSE LET line == Head(lines)
             nxt == IF line = <<>> THEN acc
                    ELSE IF Head(line).k = "event" THEN [acc EXCEPT !.event = Head(line).e]
                    ELSE IF Head(line).k = "data" THEN [acc EXCEPT !.data = Head(line).d]
                    ELSE acc
         IN  ScanLines(Tail(lines), nxt)

\* parseSSEMessage: <<record>> or << >> for null
parseSSEMessage(message) ==
    LET r == ScanLines(Split(Trim(message), LFt), [event |-> "", data |-> NoText])
    IN  IF r.event # "" /\ r.data # NoText THEN <<r>> ELSE <<>>

RECURSIVE ParseEach(_)
ParseEach(messages) ==
    IF messages = <<>> THEN <<>>
    ELSE (IF Trim(Head(messages)) # <<>> THEN parseSSEMessage(Head(messages)) ELSE <<>>)
         \o ParseEach(Tail(messages))

parseSSEStream(text) == ParseEach(SplitBlank(text))

\* the data handler's outer loop: for (const message of messages) { if (!message.trim()) continue; ... }
RECURSIVE DecodeMessages(_)
DecodeMessages(messages) ==
    IF messages = <<>> THEN <<>>
    ELSE (IF Trim(Head(messages)) = <<>> THEN <<>>
          ELSE parseSSEStream(Head(messages) \o <<LFt, LFt>>))
         \o DecodeMessages(Tail(messages))

\* ------------------------------------------------------------- SSE wire bytes
\* The Frame Decoder on the bytes of the connection.  A byte is a string: an ASCII
\* character is itself, "C3" and "A9" are the two bytes of the UTF-8 encoding of
\* U+00E9.  A decoded character is a string too: "U+00E9", and "U+FFFD" for the
\* replacement character.
LeadBytes == {"C3"}

ContinuationBytes == {"A9"}

\* chunk.toString(): UTF-8 decoding of one Buffer on its own; a sequence that is
\* incomplete within the Buffer decodes to replacement characters
RECURSIVE toString(_)
toString(bytes) ==
    IF bytes = <<>> THEN <<>>
    ELSE IF Head(bytes) \in LeadBytes
         THEN IF Len(bytes) >= 2 /\ bytes[2] \in ContinuationBytes
              THEN <<"U+00E9">> \o toString(SubSeq(bytes, 3, Len(bytes)))
              ELSE <<"U+FFFD">> \o toString(Tail(bytes))
    ELSE IF Head(bytes) \in ContinuationBytes THEN <<"U+FFFD">> \o toString(Tail(bytes))
    ELSE <<Head(bytes)>> \o toString(Tail(bytes))

EventPrefix == <<"e", "v", "e", "n", "t", ":", " ">>

DataPrefix == <<"d", "a", "t", "a", ":", " ">>

\* line.startsWith(prefix)
StartsWith(line, prefix) ==
    Len(line) >= Len(prefix) /\ SubSeq(line, 1, Len(prefix)) = prefix

\* text.split("\n\n") on characters
RECURSIVE SplitBlankTextFrom(_, _)
SplitBlankTextFrom(text, cur) ==
    IF text = <<>> THEN <<cur>>
    ELSE IF Len(text) >= 2 /\ text[1] = "\n" /\ text[2] = "\n"
         THEN <<cur>> \o SplitBlankTextFrom(SubSeq(text, 3, Len(text)), <<>>)
    ELSE SplitBlankTextFrom(Tail(text), Append(cur, Head(text)))

SplitBlankText(text) == SplitBlankTextFrom(text, <<>>)

\* String.prototype.trim() on characters
WhiteSpace == {" ", "\n"}

RECURSIVE TrimLeftText(_)
TrimLeftText(text) ==
    IF text # <<>> /\ Head(text) \in WhiteSpace THEN TrimLeftText(Tail(text)) ELSE text

RECURSIVE TrimRightText(_)
TrimRightText(text) ==
    IF text # <<>> /\ text[Len(text)] \in WhiteSpace
    THEN TrimRightText(SubSeq(text, 1, Len(text) - 1)) ELSE text

TrimText(text) == TrimRightText(TrimLeftText(text))

\* the for loop of parseSSEMessage on characters: line.slice(7), line.slice(6)
RECURSIVE ScanLinesFirstWins(_, _)
ScanLinesFirstWins(lines, acc) ==
    IF lines = <<>> THEN acc
    ELSE LET line == Head(lines)
             nxt == IF StartsWith(line, EventPrefix) /\ acc.event = <<>>
                    THEN [acc EXCEPT !.event = SubSeq(line, 8, Len(line))]
                    ELSE IF StartsWith(line, DataPrefix) /\ acc.data = <<>>
                    THEN [acc EXCEPT !.data = SubSeq(line, 7, Len(line))]
                    ELSE acc
         IN  ScanLinesFirstWins(Tail(lines), nxt)

RECURSIVE ScanLinesText(_, _)
ScanLinesText(lines, acc) ==
    IF lines = <<>> THEN acc
    ELSE LET line == Head(lines)
             nxt == IF StartsWith(line, EventPrefix)
                    THEN [acc EXCEPT !.event = SubSeq(line, 8, Len(line))]
                    ELSE IF StartsWith(line, DataPrefix)
                    THEN [acc EXCEPT !.data = SubSeq(line, 7, Len(line))]
                    ELSE acc
         IN  ScanLinesText(Tail(lines), nxt)

parseSSEMessageText(message) ==
    LET r == ScanLinesText(Split(TrimText(message), "\n"), [event |-> <<>>, data |-> <<>>])
    IN  IF r.event # <<>> /\ r.data # <<>> THEN <<r>> ELSE <<>>

RECURSIVE ParseEachText(_)
ParseEachText(messages) ==
    IF messages = <<>> THEN <<>>
    ELSE (IF TrimText(Head(messages)) # <<>> THEN parseSSEMessageText(Head(messages)) ELSE <<>>)
         \o ParseEachText(Tail(messages))

parseSSEStreamText(text) == ParseEachText(SplitBlankText(text))

RECURSIVE DecodeMessagesText(_)
DecodeMessagesText(messages) ==
    IF messages = <<>> THEN <<>>
    ELSE (IF TrimText(Head(messages)) = <<>> THEN <<>>
          ELSE parseSSEStreamText(Head(messages) \o <<"\n", "\n">>))
         \o DecodeMessagesText(Tail(messages))

\* the decoding part of the data handler: buffer += chunk.toString(); split; hold
\* back the last segment; the (event, data) records of the complete frames
DecodeChunk(buf, chunk) ==
    LET text == buf \o toString(chunk)
        messages == SplitBlankText(text)
    IN  [buffer |-> messages[Len(messages)],
         records |-> DecodeMessagesText(SubSeq(messages, 1, Len(messages) - 1))]

\* one frame on the wire: "event: <e>\ndata: <d>\n\n"
FrameBytes(e, d) == EventPrefix \o e \o <<"\n">> \o DataPrefix \o d \o <<"\n", "\n">>

\* what the remote side may write: a frame with an ASCII payload, a frame whose
\* payload holds a two-byte character, a stray line break, a message without an
\* event line, a message of white space
WirePieces ==
    {FrameBytes(<<"o">>, <<"x">>),
     FrameBytes(<<"o">>, <<"C3", "A9">>),
     <<"\n">>,
     DataPrefix \o <<"x", "\n", "\n">>,
     <<" ", "\n", "\n">>}

\* frames as a server may write them: well formed, lines in the other order,
\* repeated prefixes, a missing line, an empty remainder, a remainder of white
\* space, a leading blank, an unknown line, a repeated event line without text
FramePieces ==
    LET ev(e) == EventPrefix \o e
        da(d) == DataPrefix \o d
        nl == <<"\n">>
        end == <<"\n", "\n">>
    IN  {ev(<<"o">>) \o nl \o da(<<"x">>) \o end,
         da(<<"x">>) \o nl \o ev(<<"o">>) \o end,
         ev(<<"o">>) \o nl \o ev(<<"p">>) \o nl \o da(<<"x">>) \o nl \o da(<<"y">>) \o end,
         ev(<<"o">>) \o end,
         da(<<"x">>) \o end,
         ev(<<"o">>) \o nl \o da(<<>>) \o end,
         ev(<<"o">>) \o nl \o da(<<" ">>) \o end,
         <<" ">> \o ev(<<"o">>) \o nl \o da(<<"x">>) \o end,
         <<":", "k">> \o nl \o ev(<<"o">>) \o nl \o da(<<"x">>) \o end,
         ev(<<"o">>) \o nl \o ev(<<>>) \o nl \o da(<<"x">>) \o end}

RECURSIVE FrameTextsOf(_)
FrameTextsOf(n) ==
    IF n = 0 THEN {<<>>}
    ELSE LET shorter == FrameTextsOf(n - 1)
         IN  shorter \cup {t \o f : t \in shorter, f \in FramePieces}

FrameTexts == FrameTextsOf(MaxFrames) \ {<<>>}

RECURSIVE WireTextsOf(_)
WireTextsOf(n) ==
    IF n = 0 THEN {<<>>}
    ELSE LET shorter == WireTextsOf(n - 1)
         IN  shorter \cup {t \o p : t \in shorter, p \in WirePieces}

WireTexts == WireTextsOf(MaxFrames) \ {<<>>}

\* ------------------------------------------------------------- event interpreter
\* timeout || 30000
TimeoutOrDefault(o) == IF TimeoutOf(o) # 0 THEN TimeoutOf(o) ELSE RemoteTimeoutDefault

\* case "start": commandId = data?.command_id || commandId
OnStart(s, d) ==
    [s EXCEPT !.commandId = IF GetOr(d, "command_id", "") # "" THEN d.command_id ELSE @]

\* a callback of the caller that throws when called
CallbackThrows(o) == Has(o, "throws") /\ o.throws

\* the calls lines.forEach makes: all of them, or the first, which throws
CallsMade(o, text) ==
    IF CallbackThrows(o) THEN <<Head(CallbackLines(text))>> ELSE CallbackLines(text)

\* case "output": an exception of onStdout leaves the case for the catch of
\* the try around JSON.parse and the switch, before the stderr part
OnOutput(s, d, o) ==
    LET out == GetOr(d, "stdout", E)
        err == GetOr(d, "stderr", E)
        thrown == out # E /\ o.onStdout /\ CallbackThrows(o)
    IN  [s EXCEPT !.stdout = @ \o out,
                  !.cbOut = IF out # E /\ o.onStdout THEN @ \o CallsMade(o, out) ELSE @,
                  !.stderr = IF thrown THEN @ ELSE @ \o err,
                  !.cbErr = IF ~thrown /\ err # E /\ o.onStderr THEN @ \o CallsMade(o, err) ELSE @]

\* case "status"
OnStatus(s, d) ==
    [s EXCEPT !.state = GetOr(d, "status", "undefined"),
              !.exitCode = IF Has(d, "exit_code") THEN d.exit_code ELSE @]

\* case "end"
OnEndRejectsFailure(s, d, o) ==
    LET st == IF GetOr(d, "status", "") = "error" THEN ERROR ELSE s.state
    IN  IF st \in {FAILED, ERROR}
        THEN [s EXCEPT !.state = st, !.stream = "destroyed", !.returned = TRUE,
                       !.outcomes = Settle(@, Failure("command failed"))]
        ELSE [s EXCEPT !.stream = "destroyed", !.returned = TRUE,
                       !.outcomes = Settle(@, Result(s.stdout, s.stderr, s.exitCode, st))]

OnEndTimeoutResolves(s, d, o) ==
    LET st == IF GetOr(d, "status", "") = "error" THEN ERROR ELSE s.state
    IN  [s EXCEPT !.state = st, !.stream = "destroyed", !.returned = TRUE,
                  !.outcomes = Settle(@, Result(s.stdout, s.stderr, s.exitCode, st))]

OnEnd(s, d, o) ==
    LET status == GetOr(d, "status", "")
        st == IF status = "error" THEN ERROR ELSE s.state
    IN  IF status = "timeout"
        THEN [s EXCEPT !.outcomes = Settle(@, CommandTimeoutError("", TimeoutOrDefault(o))),
                       !.returned = TRUE]
        ELSE [s EXCEPT !.state = st,
                       !.stream = "destroyed",
                       !.outcomes = Settle(@, Result(s.stdout, s.stderr, s.exitCode, st)),
                       !.returned = TRUE]

\* case "error"
OnErrorWaitsForEnd(s, d) == s

OnError(s, d) ==
    [s EXCEPT !.outcomes = Settle(@, Failure(GetOr(d, "error", "undefined"))),
              !.stream = "destroyed",
              !.returned = TRUE]

\* case "timeout"
OnTimeout(s, o) ==
    [s EXCEPT !.outcomes = Settle(@, CommandTimeoutError("", TimeoutOrDefault(o))),
              !.stream = "destroyed",
              !.returned = TRUE]

\* try { const data = JSON.parse(sseEvent.data); switch (sseEvent.event) ... } catch {}
InterpretEventAborts(s, ev, o) ==
    [s EXCEPT !.seen = Append(@, ev),
              !.outcomes = Settle(@, Failure("parse error")),
              !.stream = "destroyed",
              !.returned = TRUE]

InterpretEvent(s, ev, o) ==
    LET d == ev.data
        t == [s EXCEPT !.seen = Append(@, ev)]
    IN  IF d = MalformedJson THEN t
        ELSE IF ev.event = "start" THEN OnStart(t, d)
        ELSE IF ev.event = "output" THEN OnOutput(t, d, o)
        ELSE IF ev.event = "status" THEN OnStatus(t, d)
        ELSE IF ev.event = "end" THEN OnEnd(t, d, o)
        ELSE IF ev.event = "error" THEN OnError(t, d)
        ELSE IF ev.event = "timeout" THEN OnTimeout(t, o)
        ELSE t

\* the loops over the decoded records, left by the handler's return
RECURSIVE Interpret(_, _, _)
Interpret(s, evs, o) ==
    IF evs = <<>> \/ s.returned THEN s
    ELSE Interpret(InterpretEvent(s, Head(evs), o), Tail(evs), o)

\* the client-side timeout check that ends the data handler
CancelWithoutId(s) == TRUE

CancelNeedsId(s) == s.commandId # ""

\* a return inside the switch leaves the data handler before the check
HandlerFallsThrough(s) == FALSE

HandlerReturned(s) == s.returned

DeadlineCheck(s, o, t0, t) ==
    IF HandlerReturned(s) \/ ~DeadlinePassed(o, t0, t) THEN s
    ELSE [s EXCEPT !.requests = IF CancelNeedsId(s) THEN Append(@, [kind |-> "cancel", id |-> s.commandId]) ELSE @,
                   !.cancel = IF CancelNeedsId(s) THEN "inflight" ELSE @,
                   !.outcomes = Settle(@, CommandTimeoutError(s.commandId, TimeoutOf(o))),
                   !.stream = "destroyed",
                   !.deadlineHit = TRUE]

\* stream.on("data", ...)
OnData(s, chunk, o, t0, t) ==
    LET text == s.buffer \o chunk
        messages == SplitBlank(text)
        s1 == [s EXCEPT !.buffer = messages[Len(messages)], !.returned = FALSE]
        s2 == Interpret(s1, DecodeMessages(SubSeq(messages, 1, Len(messages) - 1)), o)
    IN  DeadlineCheck(s2, o, t0, t)

\* ------------------------------------------------------------- inputs
CallOptions ==
    LET cbs == [onStdout : BOOLEAN, onStderr : BOOLEAN]
    IN  cbs \cup {[onStdout |-> c.onStdout, onStderr |-> c.onStderr, timeout |-> t] :
                    c \in cbs, t \in 1..MaxTimeout}

CommandIds == {"c1"}

ExitCodes == {0, 2}

\* Snapshots the remote side may answer a GET with (Command, optional fields)
Snapshots ==
    LET base == [status : CommandState]
        withExit == base \cup {[status |-> b.status, exit_code |-> x] : b \in base, x \in ExitCodes}
    IN  withExit \cup {[c \in DOMAIN w \cup {"stdout", "stderr"} |->
                          IF c = "stdout" THEN <<"a", "\n">>
                          ELSE IF c = "stderr" THEN <<"b">> ELSE w[c]] : w \in withExit}

\* one SSE frame: "event: <type>\ndata: <json>\n\n"
Frame(e, d) == <<EventLine(e), LFt, DataLine(d), LFt, LFt>>

\* Frames the remote side may write to the live connection: every event type
ControlFrames ==
    {Frame("start", [command_id |-> id, status |-> QUEUED]) : id \in CommandIds}
    \cup {Frame("output", [stdout |-> <<"a", "\n">>]), Frame("output", [stderr |-> <<"b">>])}
    \cup {Frame("status", [status |-> FAILED]),
          Frame("status", [status |-> DONE, exit_code |-> 0]),
          Frame("status", [status |-> FAILED, exit_code |-> 2])}
    \cup {Frame("end", [status |-> st]) : st \in {DONE, FAILED, ERROR, "timeout"}}
    \cup {Frame("error", [error |-> "boom"]), Frame("timeout", [status |-> "timeout"])}

\* Pieces of output the remote command may write at once: a partial line, a line
\* break, a whole line
OutFragments == {<<"a">>, <<"\n">>, <<"a", "\n">>}

ErrFragments == {<<"b", "\n">>}

\* Frames of a command that only writes output and ends
OutputFrames ==
    {Frame("output", [stdout |-> f]) : f \in OutFragments}
    \cup {Frame("output", [stderr |-> f]) : f \in ErrFragments}
    \cup {Frame("output", [stdout |-> <<"a">>, stderr |-> <<"b", "\n">>])}
    \cup {Frame("start", [command_id |-> id, status |-> QUEUED]) : id \in CommandIds}
    \cup {Frame("end", [status |-> DONE])}

\* Chunks of a remote side that does not keep to the protocol: payloads that do
\* not parse, alone or in front of a good frame of the same chunk, and status
\* events in any order
ProtocolFrames ==
    {Frame("start", [command_id |-> id, status |-> QUEUED]) : id \in CommandIds}
    \cup {Frame("output", [stdout |-> <<"a", "\n">>]),
          Frame("output", MalformedJson) \o Frame("output", [stdout |-> <<"a", "\n">>]),
          Frame("status", MalformedJson),
          Frame("end", MalformedJson),
          Frame("status", [status |-> RUNNING]),
          Frame("status", [status |-> DONE, exit_code |-> 0]),
          Frame("end", [status |-> DONE])}

Chunks(which) ==
    IF which = "output" THEN OutputFrames
    ELSE IF which = "protocol" THEN ProtocolFrames
    ELSE ControlFrames

VARIABLES
    opts,        \* the CommandOptions of the call
    pc,          \* where the call is
    now,         \* Date.now()
    startTime,
    commandId,   \* "" is undefined
    cmd,         \* polling: the last snapshot received
    requests,    \* every HTTP request sent, in order
    cancel,      \* the cancel request: none, inflight, ok, failed
    outcomes,    \* what the caller has received from the call
    deadlineHit, \* the deadline branch was taken
    stdout, stderr, exitCode, state, buffer,   \* the locals of runWithStreaming
    stream,      \* the live connection: none, open, ended, errored, destroyed
    cbOut, cbErr, \* the arguments onStdout / onStderr were called with, in order
    seen,        \* the decoded records the handler has interpreted, in order
    arrived,     \* the decoded records of every complete frame that has arrived, in order
    nChunks,     \* chunks delivered so far
    impl,        \* the BoxHandle in use: "current" (SSE) or "cursor" (polling with callbacks)
    inputs,      \* what the remote side is drawn from: "control" or "output"
    remote,      \* cursor variant: the remote command (status, cumulative output)
    lastStdoutPositions, lastStderrPositions,  \* cursor variant: commandId -> observed length
    wire,        \* decoder: the bytes the remote side writes to the connection
    nDelivered,  \* decoder: how many of them have arrived
    decoded,     \* decoder: the (event, data) records decoded so far
    entry,       \* the method called: "run", "waitUntilReady" or "withSandbox"
    box,         \* this._box?.status, "none" while this._box is undefined
    waitTimeout, \* the timeout argument of waitUntilReady, 0 is undefined
    observed,    \* the answers of the status requests, in order
    steps,       \* what the call has done so far, in order
    waitResult,  \* how waitUntilReady ended: << >> while it has not
    pending,     \* withSandbox: the result or error held while finally runs
    stopLog,     \* one record per stop() call: cached status before, DELETE sent, answer, status after
    calls        \* concurrent run calls on one handle: call -> its position, locals and remote command

callVars == <<opts, pc, now, startTime, commandId, cmd, requests, cancel, outcomes, deadlineHit>>

streamVars == <<stdout, stderr, exitCode, state, buffer, stream, cbOut, cbErr, seen, arrived, nChunks>>

cursorVars == <<remote, lastStdoutPositions, lastStderrPositions>>

decoderVars == <<wire, nDelivered, decoded>>

boxVars == <<entry, box, waitTimeout, observed, steps, waitResult, pending, stopLog>>

concVars == <<calls>>

restVars == <<decoderVars, boxVars, concVars>>

vars == <<callVars, streamVars, impl, inputs, cursorVars, restVars>>

Submit(s) == [kind |-> "submit", stream |-> s]
Fetch(id) == [kind |-> "get", id |-> id]
Cancel(id) == [kind |-> "cancel", id |-> id]

Count(kind) == Cardinality({i \in 1..Len(requests) : requests[i].kind = kind})

NoCmd == [status |-> "none"]

InitCall ==
    /\ pc = "idle"
    /\ now = 0
    /\ startTime = 0
    /\ commandId = ""
    /\ cmd = NoCmd
    /\ requests = <<>>
    /\ cancel = "none"
    /\ outcomes = <<>>
    /\ deadlineHit = FALSE
    /\ stdout = E
    /\ stderr = E
    /\ exitCode = 0
    /\ state = QUEUED
    /\ buffer = <<>>
    /\ stream = "none"
    /\ cbOut = <<>>
    /\ cbErr = <<>>
    /\ seen = <<>>
    /\ arrived = <<>>
    /\ nChunks = 0
    /\ remote = [status |-> QUEUED, stdout |-> E, stderr |-> E, written |-> 0]
    /\ lastStdoutPositions = <<>>
    /\ lastStderrPositions = <<>>

\* a run call on the current BoxHandle, any options, any remote behaviour
\* no bytes under decoding
InitDecoderIdle ==
    /\ wire = <<>>
    /\ nDelivered = 0
    /\ decoded = <<>>

\* a BoxHandle built from an id: no box fetched, nothing called yet
InitBoxIdle ==
    /\ box = "none"
    /\ waitTimeout = 0
    /\ observed = <<>>
    /\ steps = <<>>
    /\ waitResult = <<>>
    /\ pending = <<>>
    /\ stopLog = <<>>

\* no concurrent calls
InitConcurrentIdle == calls = <<>>

InitRest ==
    /\ InitDecoderIdle
    /\ entry = "run"
    /\ InitBoxIdle
    /\ InitConcurrentIdle

Init ==
    /\ opts \in CallOptions
    /\ impl = "current"
    /\ inputs = "control"
    /\ InitCall
    /\ InitRest

\* a run call with a callback registered, on either BoxHandle, against a command
\* that writes output
InitCallbacks ==
    /\ opts \in {o \in CallOptions : o.onStdout \/ o.onStderr}
    /\ impl \in {"current", "cursor"}
    /\ inputs = "output"
    /\ InitCall
    /\ InitRest

Tick ==
    /\ pc \notin {"idle", "done"}
    /\ now < MaxNow
    /\ now' = now + 1
    /\ UNCHANGED <<opts, pc, startTime, commandId, cmd, requests, cancel, outcomes, deadlineHit>>
    /\ UNCHANGED <<streamVars, impl, inputs, cursorVars>>
    /\ UNCHANGED restVars

\* run(), polling branch: the submit POST is sent
RunPolling ==
    /\ impl = "current"
    /\ pc = "idle"
    /\ ~UseStreaming(opts)
    /\ requests' = Append(requests, Submit(FALSE))
    /\ pc' = "submitting"
    /\ UNCHANGED <<opts, now, startTime, commandId, cmd, cancel, outcomes, deadlineHit>>
    /\ UNCHANGED <<streamVars, impl, inputs, cursorVars>>
    /\ UNCHANGED restVars

\* the submit response: commandId, startTime, then the first snapshot GET
SubmitResponse ==
    /\ impl = "current"
    /\ pc = "submitting"
    /\ \E id \in CommandIds :
        /\ commandId' = id
        /\ requests' = Append(requests, Fetch(id))
    /\ startTime' = now
    /\ pc' = "fetching"
    /\ UNCHANGED <<opts, now, cmd, cancel, outcomes, deadlineHit>>
    /\ UNCHANGED <<streamVars, impl, inputs, cursorVars>>
    /\ UNCHANGED restVars

\* makeRequest rejects (submit or snapshot): run() throws the error
RequestFails ==
    /\ impl = "current"
    /\ pc \in {"submitting", "fetching"}
    /\ outcomes' = Settle(outcomes, Failure("request failed"))
    /\ pc' = "done"
    /\ UNCHANGED <<opts, now, startTime, commandId, cmd, requests, cancel, deadlineHit>>
    /\ UNCHANGED <<streamVars, impl, inputs, cursorVars>>
    /\ UNCHANGED restVars

\* a snapshot arrives: result, deadline branch, or sleep
SnapshotResponse ==
    /\ impl = "current"
    /\ pc = "fetching"
    /\ \E c \in Snapshots :
        /\ cmd' = c
        /\ IF c.status \in TerminalStates
           THEN /\ outcomes' = Settle(outcomes, PollResult(c))
                /\ pc' = "done"
                /\ UNCHANGED <<requests, cancel, deadlineHit>>
           ELSE IF DeadlinePassed(opts, startTime, now)
           THEN /\ requests' = Append(requests, Cancel(commandId))
                /\ cancel' = "inflight"
                /\ deadlineHit' = TRUE
                /\ pc' = "cancelling"
                /\ UNCHANGED outcomes
           ELSE /\ pc' = "sleeping"
                /\ UNCHANGED <<requests, cancel, outcomes, deadlineHit>>
    /\ UNCHANGED <<opts, now, startTime, commandId>>
    /\ UNCHANGED <<streamVars, impl, inputs, cursorVars>>
    /\ UNCHANGED restVars

\* what one turn of the polling loop sends: the snapshot GET, never the submit POST
PollAgainResubmits(reqs, id) == Append(Append(reqs, Submit(FALSE)), Fetch(id))

PollAgain(reqs, id) == Append(reqs, Fetch(id))

\* the poll interval elapses: next snapshot GET
PollWake ==
    /\ impl = "current"
    /\ pc = "sleeping"
    /\ Count("get") < MaxPolls
    /\ requests' = PollAgain(requests, commandId)
    /\ pc' = "fetching"
    /\ UNCHANGED <<opts, now, startTime, commandId, cmd, cancel, outcomes, deadlineHit>>
    /\ UNCHANGED <<streamVars, impl, inputs, cursorVars>>
    /\ UNCHANGED restVars

\* try { await this.cancelCommand(...) } catch {}; throw new CommandTimeoutError(...)
PollCancelSurfaces(ok) ==
    IF ok THEN CommandTimeoutError(commandId, TimeoutOf(opts)) ELSE Failure("cancel failed")

PollCancelOutcome(ok) == CommandTimeoutError(commandId, TimeoutOf(opts))

\* the awaited cancel request is answered or fails
PollCancelResponse ==
    /\ pc = "cancelling"
    /\ \E ok \in BOOLEAN :
        /\ cancel' = (IF ok THEN "ok" ELSE "failed")
        /\ outcomes' = Settle(outcomes, PollCancelOutcome(ok))
    /\ pc' = "done"
    /\ UNCHANGED <<opts, now, startTime, commandId, cmd, requests, deadlineHit>>
    /\ UNCHANGED <<streamVars, impl, inputs, cursorVars>>
    /\ UNCHANGED restVars

\* run() with a callback: runWithStreaming sends the submit POST with stream: true
RunStreaming ==
    /\ impl = "current"
    /\ pc = "idle"
    /\ UseStreaming(opts)
    /\ startTime' = now
    /\ requests' = Append(requests, Submit(TRUE))
    /\ pc' = "connecting"
    /\ UNCHANGED <<opts, now, commandId, cmd, cancel, outcomes, deadlineHit>>
    /\ UNCHANGED <<streamVars, impl, inputs, cursorVars>>
    /\ UNCHANGED restVars

\* .then((response) => { stream.on(...) })
Connected ==
    /\ pc = "connecting"
    /\ pc' = "streaming"
    /\ stream' = "open"
    /\ UNCHANGED <<opts, now, startTime, commandId, cmd, requests, cancel, outcomes, deadlineHit>>
    /\ UNCHANGED <<stdout, stderr, exitCode, state, buffer, cbOut, cbErr, seen, arrived, nChunks>>
    /\ UNCHANGED <<impl, inputs, cursorVars>>
    /\ UNCHANGED restVars

\* .catch(reject)
ConnectFails ==
    /\ pc = "connecting"
    /\ outcomes' = Settle(outcomes, Failure("request failed"))
    /\ pc' = "done"
    /\ UNCHANGED <<opts, now, startTime, commandId, cmd, requests, cancel, deadlineHit>>
    /\ UNCHANGED <<streamVars, impl, inputs, cursorVars>>
    /\ UNCHANGED restVars

Locals ==
    [stdout |-> stdout, stderr |-> stderr, exitCode |-> exitCode, state |-> state,
     buffer |-> buffer, commandId |-> commandId, cbOut |-> cbOut, cbErr |-> cbErr,
     outcomes |-> outcomes, stream |-> stream, seen |-> seen, requests |-> requests,
     cancel |-> cancel, deadlineHit |-> deadlineHit, returned |-> FALSE]

\* the records of the frames a chunk completes
Arriving(buf, chunk) ==
    LET messages == SplitBlank(buf \o chunk)
    IN  DecodeMessages(SubSeq(messages, 1, Len(messages) - 1))

\* a chunk arrives on the open connection
StreamData ==
    /\ pc = "streaming"
    /\ stream = "open"
    /\ nChunks < MaxChunks
    /\ \E chunk \in Chunks(inputs) :
        \E s \in {OnData(Locals, chunk, opts, startTime, now)} :
            /\ stdout' = s.stdout
            /\ stderr' = s.stderr
            /\ exitCode' = s.exitCode
            /\ state' = s.state
            /\ buffer' = s.buffer
            /\ commandId' = s.commandId
            /\ cbOut' = s.cbOut
            /\ cbErr' = s.cbErr
            /\ outcomes' = s.outcomes
            /\ stream' = s.stream
            /\ seen' = s.seen
            /\ arrived' = arrived \o Arriving(buffer, chunk)
            /\ requests' = s.requests
            /\ cancel' = s.cancel
            /\ deadlineHit' = s.deadlineHit
            /\ pc' = (IF s.stream = "destroyed" THEN "done" ELSE pc)
    /\ nChunks' = nChunks + 1
    /\ UNCHANGED <<opts, now, startTime, cmd, impl, inputs, cursorVars>>
    /\ UNCHANGED restVars

\* { stdout, stderr, exitCode, state } of the 'end' handler
EmptyResult == Result(E, E, 0, QUEUED)

CurrentResult == Result(stdout, stderr, exitCode, state)

\* stream.on("end"): resolve with the current state
StreamEnd ==
    /\ pc = "streaming"
    /\ stream = "open"
    /\ outcomes' = Settle(outcomes, CurrentResult)
    /\ stream' = "ended"
    /\ pc' = "done"
    /\ UNCHANGED <<opts, now, startTime, commandId, cmd, requests, cancel, deadlineHit>>
    /\ UNCHANGED <<stdout, stderr, exitCode, state, buffer, cbOut, cbErr, seen, arrived, nChunks>>
    /\ UNCHANGED <<impl, inputs, cursorVars>>
    /\ UNCHANGED restVars

\* stream.on("error"): reject with the connection error
StreamError ==
    /\ pc = "streaming"
    /\ stream = "open"
    /\ outcomes' = Settle(outcomes, Failure("connection error"))
    /\ stream' = "errored"
    /\ pc' = "done"
    /\ UNCHANGED <<opts, now, startTime, commandId, cmd, requests, cancel, deadlineHit>>
    /\ UNCHANGED <<stdout, stderr, exitCode, state, buffer, cbOut, cbErr, seen, arrived, nChunks>>
    /\ UNCHANGED <<impl, inputs, cursorVars>>
    /\ UNCHANGED restVars

\* this.cancelCommand(...).catch(() => {}): the answer of the unawaited cancel
StreamCancelResponse ==
    /\ UseStreaming(opts)
    /\ cancel = "inflight"
    /\ \E ok \in BOOLEAN : cancel' = (IF ok THEN "ok" ELSE "failed")
    /\ UNCHANGED <<opts, pc, now, startTime, commandId, cmd, requests, outcomes, deadlineHit>>
    /\ UNCHANGED <<streamVars, impl, inputs, cursorVars>>
    /\ UNCHANGED restVars

Next ==
    \/ Tick
    \/ RunPolling
    \/ SubmitResponse
    \/ RequestFails
    \/ SnapshotResponse
    \/ PollWake
    \/ PollCancelResponse
    \/ RunStreaming
    \/ Connected
    \/ ConnectFails
    \/ StreamData
    \/ StreamEnd
    \/ StreamError
    \/ StreamCancelResponse

Spec == Init /\ [][Next]_vars

\* ------------------------------------------------------------- the cursor variant
\* BoxHandle with lastStdoutPositions / lastStderrPositions: run() always polls

\* Map.set, Map.delete, Map.get(k) || 0
MapSet(m, k, v) == [x \in DOMAIN m \cup {k} |-> IF x = k THEN v ELSE m[x]]

MapDelete(m, k) == [x \in DOMAIN m \ {k} |-> m[x]]

MapGet(m, k) == IF k \in DOMAIN m THEN m[k] ELSE 0

\* cmd.stdout.slice(lastPos)
Slice(text, from) == SubSeq(text, from + 1, Len(text))

\* the cursor after one observation of the cumulative text
CursorStays(registered, text, lastPos) == lastPos

CursorAfter(registered, text, lastPos) ==
    IF registered /\ text # E /\ Slice(text, lastPos) # E THEN Len(text) ELSE lastPos

\* the callback invocations of one observation of the cumulative text
DeliverAll(registered, text, lastPos) ==
    IF registered /\ text # E THEN CallbackLines(text) ELSE <<>>

DeliverNew(registered, text, lastPos) ==
    IF registered /\ text # E /\ Slice(text, lastPos) # E
    THEN CallbackLines(Slice(text, lastPos))
    ELSE <<>>

\* the Command the remote side answers a GET with
RemoteSnapshot ==
    [f \in DOMAIN remote \ {"written"} |-> remote[f]]

\* the remote command writes output or changes status, forward only
RemoteProgress ==
    /\ impl = "cursor"
    /\ pc \in {"fetching", "sleeping"}
    /\ remote.status \notin TerminalStates
    /\ \/ /\ remote.written < MaxWrites
          /\ \/ \E f \in OutFragments :
                  remote' = [remote EXCEPT !.stdout = @ \o f, !.written = @ + 1]
             \/ \E f \in ErrFragments :
                  remote' = [remote EXCEPT !.stderr = @ \o f, !.written = @ + 1]
       \/ remote.status = QUEUED /\ remote' = [remote EXCEPT !.status = RUNNING]
       \/ \E st \in TerminalStates : remote' = [remote EXCEPT !.status = st]
    /\ UNCHANGED <<callVars, streamVars, impl, inputs, lastStdoutPositions, lastStderrPositions>>
    /\ UNCHANGED restVars

\* run(): the submit POST
CursorRun ==
    /\ impl = "cursor"
    /\ pc = "idle"
    /\ requests' = Append(requests, Submit(FALSE))
    /\ pc' = "submitting"
    /\ UNCHANGED <<opts, now, startTime, commandId, cmd, cancel, outcomes, deadlineHit>>
    /\ UNCHANGED <<streamVars, impl, inputs, cursorVars>>
    /\ UNCHANGED restVars

\* the submit response: commandId, both cursors at 0, startTime, first GET
CursorSubmitResponse ==
    /\ impl = "cursor"
    /\ pc = "submitting"
    /\ \E id \in CommandIds :
        /\ commandId' = id
        /\ lastStdoutPositions' = MapSet(lastStdoutPositions, id, 0)
        /\ lastStderrPositions' = MapSet(lastStderrPositions, id, 0)
        /\ requests' = Append(requests, Fetch(id))
    /\ startTime' = now
    /\ pc' = "fetching"
    /\ UNCHANGED <<opts, now, cmd, cancel, outcomes, deadlineHit>>
    /\ UNCHANGED <<streamVars, impl, inputs, remote>>
    /\ UNCHANGED restVars

\* makeRequest rejects: run() throws, the cursors stay
CursorRequestFails ==
    /\ impl = "cursor"
    /\ pc \in {"submitting", "fetching"}
    /\ outcomes' = Settle(outcomes, Failure("request failed"))
    /\ pc' = "done"
    /\ UNCHANGED <<opts, now, startTime, commandId, cmd, requests, cancel, deadlineHit>>
    /\ UNCHANGED <<streamVars, impl, inputs, cursorVars>>
    /\ UNCHANGED restVars

\* a snapshot arrives: new output to the callbacks, then result, timeout or sleep
CursorSnapshotResponse ==
    /\ impl = "cursor"
    /\ pc = "fetching"
    /\ LET c == RemoteSnapshot
           out == GetOr(c, "stdout", E)
           err == GetOr(c, "stderr", E)
           outPos == MapGet(lastStdoutPositions, commandId)
           errPos == MapGet(lastStderrPositions, commandId)
           outMap == MapSet(lastStdoutPositions, commandId, CursorAfter(opts.onStdout, out, outPos))
           errMap == MapSet(lastStderrPositions, commandId, CursorAfter(opts.onStderr, err, errPos))
       IN  /\ cmd' = c
           /\ cbOut' = cbOut \o DeliverNew(opts.onStdout, out, outPos)
           /\ cbErr' = cbErr \o DeliverNew(opts.onStderr, err, errPos)
           /\ IF c.status \in TerminalStates
              THEN /\ lastStdoutPositions' = MapDelete(outMap, commandId)
                   /\ lastStderrPositions' = MapDelete(errMap, commandId)
                   /\ outcomes' = Settle(outcomes, PollResult(c))
                   /\ pc' = "done"
                   /\ UNCHANGED deadlineHit
              ELSE IF DeadlinePassed(opts, startTime, now)
              THEN /\ lastStdoutPositions' = outMap
                   /\ lastStderrPositions' = errMap
                   /\ outcomes' = Settle(outcomes, CommandTimeoutError(commandId, TimeoutOf(opts)))
                   /\ deadlineHit' = TRUE
                   /\ pc' = "done"
              ELSE /\ lastStdoutPositions' = outMap
                   /\ lastStderrPositions' = errMap
                   /\ pc' = "sleeping"
                   /\ UNCHANGED <<outcomes, deadlineHit>>
    /\ UNCHANGED <<opts, now, startTime, commandId, requests, cancel>>
    /\ UNCHANGED <<stdout, stderr, exitCode, state, buffer, stream, seen, arrived, nChunks>>
    /\ UNCHANGED <<impl, inputs, remote>>
    /\ UNCHANGED restVars

\* the poll interval elapses: next snapshot GET
CursorPollWake ==
    /\ impl = "cursor"
    /\ pc = "sleeping"
    /\ Count("get") < MaxPolls
    /\ requests' = Append(requests, Fetch(commandId))
    /\ pc' = "fetching"
    /\ UNCHANGED <<opts, now, startTime, commandId, cmd, cancel, outcomes, deadlineHit>>
    /\ UNCHANGED <<streamVars, impl, inputs, cursorVars>>
    /\ UNCHANGED restVars

NextCursor ==
    \/ RemoteProgress
    \/ CursorRun
    \/ CursorSubmitResponse
    \/ CursorRequestFails
    \/ CursorSnapshotResponse
    \/ CursorPollWake

NextStreaming ==
    \/ Tick
    \/ RunStreaming
    \/ Connected
    \/ ConnectFails
    \/ StreamData
    \/ StreamEnd
    \/ StreamError
    \/ StreamCancelResponse

\* run calls with callbacks: the SSE transport of the current BoxHandle and the
\* cursor polling of the earlier one
SpecCallbacks == InitCallbacks /\ [][NextStreaming \/ NextCursor]_vars

\* ------------------------------------------------------------- the decoder alone
\* a connection that delivers the bytes of one wire text, cut anywhere
InitDecoder ==
    /\ opts = [onStdout |-> TRUE, onStderr |-> FALSE]
    /\ impl = "current"
    /\ inputs = "bytes"
    /\ InitCall
    /\ wire \in WireTexts
    /\ nDelivered = 0
    /\ decoded = <<>>
    /\ entry = "run"
    /\ InitBoxIdle
    /\ InitConcurrentIdle

\* stream.on("data"): the next chunk, of any length, through the decoder
DecoderData ==
    /\ inputs = "bytes"
    /\ nDelivered < Len(wire)
    /\ \E n \in 1..(Len(wire) - nDelivered) :
        \E r \in {DecodeChunk(buffer, SubSeq(wire, nDelivered + 1, nDelivered + n))} :
            /\ buffer' = r.buffer
            /\ decoded' = decoded \o r.records
            /\ nDelivered' = nDelivered + n
    /\ UNCHANGED <<callVars, stdout, stderr, exitCode, state, stream, cbOut, cbErr, seen, arrived, nChunks>>
    /\ UNCHANGED <<impl, inputs, cursorVars, wire, boxVars, concVars>>

NextDecoder == DecoderData

SpecDecoder == InitDecoder /\ [][NextDecoder]_vars

\* ------------------------------------------------------------- concurrent calls
\* Two run calls with onStdout on one cursor-polling BoxHandle.  Each call has its
\* own locals and its own remote command; the two cursor maps are the handle's.
CallIds == {1, 2}

ConcurrentIds == <<"c1", "c2">>

\* the server numbers the commands in the order of their submission
FreshId(cs) == ConcurrentIds[Cardinality({d \in CallIds : cs[d].commandId # ""}) + 1]

\* the key of a command's entry in the cursor maps: its command id
SharedKey(id) == "shared"

CursorKey(id) == id

\* what a remote command writes next, after n characters: lines "a", a character at a time
NextWrite(n) == IF n % 2 = 0 THEN <<"a">> ELSE <<"\n">>

NewCall(t) ==
    [pc |-> "idle", commandId |-> "", timeout |-> t, polls |-> 0, cmdOut |-> E,
     status |-> "none", cbOut |-> <<>>, outcome |-> <<>>,
     remoteOut |-> E, remoteStatus |-> RUNNING]

InitConcurrent ==
    /\ opts = [onStdout |-> TRUE, onStderr |-> FALSE]
    /\ impl = "cursor"
    /\ inputs = "concurrent"
    /\ InitCall
    /\ InitDecoderIdle
    /\ entry = "run"
    /\ InitBoxIdle
    /\ calls \in {[c \in CallIds |-> NewCall(IF c = 1 THEN t ELSE 0)] : t \in {0, MaxTimeout}}

soloVars == <<callVars, streamVars, impl, inputs, remote, decoderVars, boxVars>>

\* run(): the submit POST of one call
ConcRun ==
    /\ \E c \in CallIds :
        /\ calls[c].pc = "idle"
        /\ calls' = [calls EXCEPT ![c].pc = "submitting"]
    /\ UNCHANGED <<soloVars, lastStdoutPositions, lastStderrPositions>>

\* the submit response: a fresh command id, both cursors at 0, the first GET
ConcSubmitResponse ==
    /\ \E c \in CallIds :
        /\ calls[c].pc = "submitting"
        /\ \E id \in {FreshId(calls)} :
            /\ calls' = [calls EXCEPT ![c].pc = "fetching", ![c].commandId = id, ![c].polls = 1]
            /\ lastStdoutPositions' = MapSet(lastStdoutPositions, CursorKey(id), 0)
            /\ lastStderrPositions' = MapSet(lastStderrPositions, CursorKey(id), 0)
    /\ UNCHANGED soloVars

\* a remote command writes output or finishes
ConcRemoteProgress ==
    /\ \E c \in CallIds :
        /\ calls[c].pc \in {"fetching", "sleeping"}
        /\ calls[c].remoteStatus = RUNNING
        /\ \/ /\ Len(calls[c].remoteOut) < MaxWrites
              /\ calls' = [calls EXCEPT ![c].remoteOut = @ \o NextWrite(Len(@))]
           \/ calls' = [calls EXCEPT ![c].remoteStatus = DONE]
    /\ UNCHANGED <<soloVars, lastStdoutPositions, lastStderrPositions>>

\* a snapshot arrives at one call: new output to its callback, then result,
\* timeout error or sleep
ConcSnapshotResponse ==
    /\ \E c \in CallIds :
        /\ calls[c].pc = "fetching"
        /\ LET id == calls[c].commandId
               out == calls[c].remoteOut
               st == calls[c].remoteStatus
               outPos == MapGet(lastStdoutPositions, CursorKey(id))
               outMap == MapSet(lastStdoutPositions, CursorKey(id), CursorAfter(TRUE, out, outPos))
               told == [calls[c] EXCEPT !.cmdOut = out, !.status = st,
                                        !.cbOut = @ \o DeliverNew(TRUE, out, outPos)]
           IN  IF st \in TerminalStates
               THEN /\ lastStdoutPositions' = MapDelete(outMap, CursorKey(id))
                    /\ lastStderrPositions' = MapDelete(lastStderrPositions, CursorKey(id))
                    /\ calls' = [calls EXCEPT ![c] =
                                    [told EXCEPT !.pc = "done",
                                                 !.outcome = <<PollResult([status |-> st, stdout |-> out])>>]]
               ELSE /\ lastStdoutPositions' = outMap
                    /\ UNCHANGED lastStderrPositions
                    /\ \/ /\ calls[c].timeout # 0
                          /\ calls' = [calls EXCEPT ![c] =
                                          [told EXCEPT !.pc = "done",
                                                       !.outcome = <<CommandTimeoutError(id, calls[c].timeout)>>]]
                       \/ calls' = [calls EXCEPT ![c] = [told EXCEPT !.pc = "sleeping"]]
    /\ UNCHANGED soloVars

\* the poll interval of one call elapses: its next snapshot GET
ConcPollWake ==
    /\ \E c \in CallIds :
        /\ calls[c].pc = "sleeping"
        /\ calls[c].polls < MaxPolls
        /\ calls' = [calls EXCEPT ![c].pc = "fetching", ![c].polls = @ + 1]
    /\ UNCHANGED <<soloVars, lastStdoutPositions, lastStderrPositions>>

NextConcurrent ==
    \/ ConcRun
    \/ ConcSubmitResponse
    \/ ConcRemoteProgress
    \/ ConcSnapshotResponse
    \/ ConcPollWake

SpecConcurrent == InitConcurrent /\ [][NextConcurrent]_vars

\* ------------------------------------------------------------- polling, with progress
\* A polling run call with a timeout, every request answered with a response.
\* The clock after setTimeout(resolve, pollInterval): pollInterval || 1000 is never 0
SleepTakesNoTime(t) == t

Elapse(t) == t + 1

InitPollingLive ==
    /\ opts \in {o \in CallOptions : ~UseStreaming(o) /\ TimeoutOf(o) # 0}
    /\ impl = "current"
    /\ inputs = "control"
    /\ InitCall
    /\ InitRest

\* the poll interval elapses, on the clock too: next snapshot GET.  A call
\* sends at most timeout + 2 GETs, so the cap on the GETs is never what stops it.
PollSleepElapses ==
    /\ impl = "current"
    /\ pc = "sleeping"
    /\ Count("get") < MaxNow + 1
    /\ now' = (IF DeadlinePassed(opts, startTime, now) THEN now ELSE Elapse(now))
    /\ requests' = PollAgain(requests, commandId)
    /\ pc' = "fetching"
    /\ UNCHANGED <<opts, startTime, commandId, cmd, cancel, outcomes, deadlineHit>>
    /\ UNCHANGED <<streamVars, impl, inputs, cursorVars>>
    /\ UNCHANGED restVars

NextPollingLive ==
    \/ Tick
    \/ RunPolling
    \/ SubmitResponse
    \/ SnapshotResponse
    \/ PollSleepElapses
    \/ PollCancelResponse

\* every request is answered and every timer fires; the clock may also move
\* at any other moment, and need not
SpecPollingLive ==
    /\ InitPollingLive
    /\ [][NextPollingLive]_vars
    /\ WF_vars(SubmitResponse)
    /\ WF_vars(SnapshotResponse)
    /\ WF_vars(PollSleepElapses)
    /\ WF_vars(PollCancelResponse)

\* ------------------------------------------------------------- protocol violations
\* a streaming run call against a remote side that sends bad payloads and
\* status events in any order
InitProtocol ==
    /\ opts \in {o \in CallOptions : o.onStdout \/ o.onStderr}
    /\ impl = "current"
    /\ inputs = "protocol"
    /\ InitCall
    /\ InitRest

SpecProtocol == InitProtocol /\ [][NextStreaming]_vars

\* ------------------------------------------------------------- callbacks that throw
\* A streaming run call whose callbacks throw, against a command that writes output
InitThrowing ==
    /\ opts \in {[f \in DOMAIN o \cup {"throws"} |-> IF f = "throws" THEN TRUE ELSE o[f]] :
                   o \in {c \in CallOptions : c.onStdout \/ c.onStderr}}
    /\ impl = "current"
    /\ inputs = "output"
    /\ InitCall
    /\ InitRest

SpecThrowing == InitThrowing /\ [][NextStreaming]_vars

\* ------------------------------------------------------------- the parser alone
\* a text of whole frames handed to parseSSEStream
InitFrames ==
    /\ opts = [onStdout |-> TRUE, onStderr |-> FALSE]
    /\ impl = "current"
    /\ inputs = "frames"
    /\ InitCall
    /\ wire \in FrameTexts
    /\ nDelivered = 0
    /\ decoded = <<>>
    /\ entry = "run"
    /\ InitBoxIdle
    /\ InitConcurrentIdle

\* [...parseSSEStream(text)]
ParseFrames ==
    /\ inputs = "frames"
    /\ nDelivered = 0
    /\ decoded' = parseSSEStreamText(wire)
    /\ nDelivered' = Len(wire)
    /\ UNCHANGED <<callVars, streamVars, impl, inputs, cursorVars, wire, boxVars, concVars>>

NextFrames == ParseFrames

SpecFrames == InitFrames /\ [][NextFrames]_vars

\* ------------------------------------------------------------- boxes
CREATING == "creating"
PROVISIONING == "provisioning"
BOOTING == "booting"
PAUSED == "paused"
STOPPED == "stopped"
FINISHED == "finished"

BoxState == {CREATING, QUEUED, PROVISIONING, BOOTING, RUNNING, PAUSED, STOPPED, FAILED, FINISHED, ERROR}

BoxId == "b1"

WaitTimeoutDefault == 60000

Returned == [kind |-> "returned"]

BoxTimeoutError(id, t) == [kind |-> "BoxTimeoutError", boxId |-> id, timeout |-> t]

BoxNotFoundError(id) == [kind |-> "BoxNotFoundError", boxId |-> id]

\* const pollInterval = 1000
PollIntervalMs == 1000

\* const maxTimeout = timeout || 60000
TimeoutAsGiven(t) == t

MaxTimeoutOf(t) == IF t # 0 THEN t ELSE WaitTimeoutDefault

\* this._box.status === BoxState.RUNNING
IsReadyOrPaused(st) == st \in {RUNNING, PAUSED}

IsReady(st) == st = RUNNING

\* [FAILED, ERROR, STOPPED, FINISHED].includes(this._box.status)
NoFailedStates == {}

BoxFailedStates == {FAILED, ERROR, STOPPED, FINISHED}

\* Date.now() - startTime > maxTimeout
WaitDeadlinePassed(t0, t) == t - t0 > MaxTimeoutOf(waitTimeout)

\* one turn of the loop of waitUntilReady after a refresh that answered st:
\* the error thrown, Returned, or << >> to sleep and poll again
WaitTurn(st, t0, t) ==
    IF st = "none" THEN <<Failure("Failed to fetch box")>>
    ELSE IF IsReady(st) THEN <<Returned>>
    ELSE IF st \in BoxFailedStates THEN <<BoxTimeoutError(BoxId, MaxTimeoutOf(waitTimeout))>>
    ELSE IF WaitDeadlinePassed(t0, t) THEN <<BoxTimeoutError(BoxId, MaxTimeoutOf(waitTimeout))>>
    ELSE <<>>

\* stop(): the DELETE is sent unless the fetched box is already in an end state
StopAlwaysSends(st) == TRUE

StopSendsDelete(st) == st = "none" \/ st \notin {STOPPED, FINISHED, FAILED, ERROR}

\* the record of one stop() call on a handle whose cached status is st
StopEntry(st) ==
    [before |-> st, sent |-> StopSendsDelete(st),
     answer |-> IF StopSendsDelete(st) THEN "pending" ELSE "none", after |-> st]

\* stop() once the DELETE is answered: this._box.status = STOPPED on a loaded
\* handle after success; nothing is assigned when the request throws
StatusAfterDelete(ok, st) == IF ok /\ st # "none" THEN STOPPED ELSE st

\* catch (error) { console.error(...) }: the held result or error is what
\* withSandbox returns or throws
AfterStopSurfaces(ok, res) == IF ok THEN res ELSE Failure("request failed")

AfterStop(ok, res) == res

\* try { ... } finally { stop }: the finally block runs on every path
RunsStopOnSuccess(r) == r.kind = "value"

RunsStop(r) == TRUE

StepCount(kind) == Cardinality({i \in DOMAIN steps : steps[i] = kind})

runFrame ==
    <<opts, commandId, cmd, requests, cancel, deadlineHit, streamVars, impl, inputs,
      cursorVars, decoderVars, concVars>>

\* a waitUntilReady call with or without a timeout, a withSandbox call, or stop()
\* calls on a handle built from an id or from a fetched box
InitBox ==
    /\ opts = [onStdout |-> FALSE, onStderr |-> FALSE]
    /\ impl = "current"
    /\ inputs = "box"
    /\ InitCall
    /\ InitDecoderIdle
    /\ waitTimeout = 0
    /\ observed = <<>>
    /\ steps = <<>>
    /\ waitResult = <<>>
    /\ pending = <<>>
    /\ stopLog = <<>>
    /\ InitConcurrentIdle
    /\ \/ entry = "withSandbox" /\ box = "none"
       \/ entry = "waitUntilReady" /\ box = "none"
       \/ entry = "stop" /\ box \in BoxState \cup {"none"}

\* waitUntilReady(timeout): startTime, then the first refresh
WaitUntilReadyCall ==
    /\ entry = "waitUntilReady"
    /\ pc = "idle"
    /\ \E t \in 0..MaxTimeout : waitTimeout' = t
    /\ \E st \in BoxState \cup {"none"} : box' = st
    /\ startTime' = now
    /\ steps' = steps \o <<"waitUntilReady", "refresh">>
    /\ pc' = "refreshing"
    /\ UNCHANGED <<runFrame, now, outcomes, entry, observed, waitResult, pending, stopLog>>

\* withSandbox: createBox sends its POST
CreateBoxCall ==
    /\ entry = "withSandbox"
    /\ pc = "idle"
    /\ steps' = Append(steps, "createBox")
    /\ pc' = "creating"
    /\ UNCHANGED <<runFrame, now, startTime, outcomes, entry, box, waitTimeout, observed, waitResult, pending, stopLog>>

\* createBox answers: a BoxHandle built from the id, then waitUntilReady();
\* or the POST fails and withSandbox throws before its try
CreateBoxResponse ==
    /\ pc = "creating"
    /\ \/ /\ steps' = steps \o <<"waitUntilReady", "refresh">>
          /\ startTime' = now
          /\ pc' = "refreshing"
          /\ UNCHANGED outcomes
       \/ /\ outcomes' = Settle(outcomes, Failure("request failed"))
          /\ pc' = "done"
          /\ UNCHANGED <<steps, startTime>>
    /\ UNCHANGED <<runFrame, now, entry, box, waitTimeout, observed, waitResult, pending, stopLog>>

\* finally { try { await box.stop() } catch { console.error } } with res held
Finally(stepsNow, boxNow, res) ==
    /\ pending' = <<res>>
    /\ stopLog' = Append(stopLog, StopEntry(boxNow))
    /\ IF StopSendsDelete(boxNow)
       THEN /\ steps' = stepsNow \o <<"stop", "delete">>
            /\ pc' = "stopping"
            /\ UNCHANGED outcomes
       ELSE /\ steps' = stepsNow \o <<"stop">>
            /\ pc' = "done"
            /\ outcomes' = Settle(outcomes, res)

\* the try block is left with res: through finally, on every path
LeaveTry(stepsNow, boxNow, res) ==
    IF RunsStop(res) THEN Finally(stepsNow, boxNow, res)
    ELSE /\ outcomes' = Settle(outcomes, res)
         /\ pc' = "done"
         /\ steps' = stepsNow
         /\ UNCHANGED <<pending, stopLog>>

\* waitUntilReady ends with r: to its caller, or on into withSandbox
WaitFinished(r, boxNow) ==
    /\ waitResult' = <<r>>
    /\ IF entry = "waitUntilReady"
       THEN /\ outcomes' = Settle(outcomes, r)
            /\ pc' = "done"
            /\ UNCHANGED <<steps, pending, stopLog>>
       ELSE IF r = Returned
       THEN /\ steps' = Append(steps, "callback")
            /\ pc' = "callback"
            /\ UNCHANGED <<outcomes, pending, stopLog>>
       ELSE LeaveTry(steps, boxNow, r)

\* refresh() answers with the box, its status one of sts: ready, failed,
\* deadline, or sleep
RefreshAnswers(sts) ==
    /\ pc = "refreshing"
    /\ \E st \in sts :
        /\ box' = st
        /\ observed' = Append(observed, st)
        /\ LET turn == WaitTurn(st, startTime, now)
           IN  IF turn = <<>>
               THEN /\ steps' = Append(steps, "sleep")
                    /\ pc' = "sleeping"
                    /\ UNCHANGED <<outcomes, waitResult, pending, stopLog>>
               ELSE WaitFinished(turn[1], st)
    /\ UNCHANGED <<runFrame, now, startTime, entry, waitTimeout>>

RefreshResponse == RefreshAnswers(BoxState \cup {"none"})

\* refresh() throws: BoxNotFoundError on 404, the request error otherwise
RefreshFails ==
    /\ pc = "refreshing"
    /\ \E e \in {BoxNotFoundError(BoxId), Failure("request failed")} : WaitFinished(e, box)
    /\ UNCHANGED <<runFrame, now, startTime, entry, box, waitTimeout, observed>>

\* the poll interval elapses: the next refresh
SleepWake ==
    /\ pc = "sleeping"
    /\ StepCount("refresh") < MaxRefreshes
    /\ steps' = Append(steps, "refresh")
    /\ pc' = "refreshing"
    /\ UNCHANGED <<runFrame, now, startTime, outcomes, entry, box, waitTimeout, observed, waitResult, pending, stopLog>>

\* the callback returns a value or throws
CallbackDone ==
    /\ pc = "callback"
    /\ \E r \in {[kind |-> "value"], Failure("callback failed")} : LeaveTry(steps, box, r)
    /\ UNCHANGED <<runFrame, now, startTime, entry, box, waitTimeout, observed, waitResult>>

\* stop() called directly on the handle
StopCall ==
    /\ entry = "stop"
    /\ pc \in {"idle", "stopped"}
    /\ Len(stopLog) < MaxStops
    /\ stopLog' = Append(stopLog, StopEntry(box))
    /\ IF StopSendsDelete(box)
       THEN /\ steps' = steps \o <<"stop", "delete">>
            /\ pc' = "stopping"
       ELSE /\ steps' = Append(steps, "stop")
            /\ pc' = "stopped"
    /\ UNCHANGED <<runFrame, now, startTime, outcomes, entry, box, waitTimeout, observed, waitResult, pending>>

\* the DELETE of stop() is answered or fails: stop() returns or throws to its
\* caller; in withSandbox a failure is logged and the held result surfaces
StopResponse ==
    /\ pc = "stopping"
    /\ \E ok \in BOOLEAN :
        /\ box' = StatusAfterDelete(ok, box)
        /\ stopLog' = [stopLog EXCEPT ![Len(stopLog)] =
                          [@ EXCEPT !.answer = IF ok THEN "ok" ELSE "failed",
                                    !.after = StatusAfterDelete(ok, box)]]
        /\ IF entry = "stop"
           THEN /\ pc' = (IF ok THEN "stopped" ELSE "done")
                /\ outcomes' = (IF ok THEN outcomes ELSE Settle(outcomes, Failure("request failed")))
                /\ UNCHANGED steps
           ELSE /\ pc' = "done"
                /\ outcomes' = Settle(outcomes, AfterStop(ok, pending[1]))
                /\ steps' = (IF ok THEN steps ELSE Append(steps, "console.error"))
    /\ UNCHANGED <<runFrame, now, startTime, entry, waitTimeout, observed, waitResult, pending>>

NextBox ==
    \/ Tick
    \/ WaitUntilReadyCall
    \/ CreateBoxCall
    \/ CreateBoxResponse
    \/ RefreshResponse
    \/ RefreshFails
    \/ SleepWake
    \/ CallbackDone
    \/ StopCall
    \/ StopResponse

SpecBox == InitBox /\ [][NextBox]_vars

\* ------------------------------------------------------------- concurrent stop calls
\* stop() calls on one handle, a call made while the DELETE of another is unanswered
stopFrame ==
    <<runFrame, pc, now, startTime, outcomes, entry, waitTimeout, observed, waitResult, pending>>

InitStops ==
    /\ opts = [onStdout |-> FALSE, onStderr |-> FALSE]
    /\ impl = "current"
    /\ inputs = "box"
    /\ InitCall
    /\ InitDecoderIdle
    /\ InitConcurrentIdle
    /\ waitTimeout = 0
    /\ observed = <<>>
    /\ steps = <<>>
    /\ waitResult = <<>>
    /\ pending = <<>>
    /\ stopLog = <<>>
    /\ entry = "stops"
    /\ box \in BoxState \cup {"none"}

\* stop() is called: the status test and, when it passes, the DELETE, sent
\* before the first await
ConcurrentStopCall ==
    /\ entry = "stops"
    /\ Len(stopLog) < MaxStops
    /\ stopLog' = Append(stopLog, StopEntry(box))
    /\ steps' = steps \o (IF StopSendsDelete(box) THEN <<"stop", "delete">> ELSE <<"stop">>)
    /\ UNCHANGED <<stopFrame, box>>

\* the DELETE of one of the calls is answered or fails: that call goes on after
\* its await
ConcurrentStopResponse ==
    /\ entry = "stops"
    /\ \E i \in DOMAIN stopLog :
        /\ stopLog[i].answer = "pending"
        /\ \E ok \in BOOLEAN :
            /\ box' = StatusAfterDelete(ok, box)
            /\ stopLog' = [stopLog EXCEPT ![i] =
                              [@ EXCEPT !.answer = IF ok THEN "ok" ELSE "failed",
                                        !.after = StatusAfterDelete(ok, box)]]
    /\ UNCHANGED <<stopFrame, steps>>

NextStops ==
    \/ ConcurrentStopCall
    \/ ConcurrentStopResponse

SpecStops == InitStops /\ [][NextStops]_vars

\* ------------------------------------------------------------- pause and resume
\* pause() / resume(): await makeRequest("POST", .../pause | .../resume); await refresh()
Post(path) == [kind |-> "post", path |-> path]

RefreshGet == [kind |-> "get", path |-> "box"]

\* the second await is reached only when the first did not throw
RefreshAlways(ok) == TRUE

RefreshAfterPost(ok) == ok

pauseFrame ==
    <<opts, commandId, cmd, cancel, deadlineHit, streamVars, impl, inputs, cursorVars,
      decoderVars, concVars, now, startTime, entry, waitTimeout, waitResult, pending, stopLog>>

\* a handle built from an id or from a fetched box, pause() or resume() to be called
InitPause ==
    /\ opts = [onStdout |-> FALSE, onStderr |-> FALSE]
    /\ impl = "current"
    /\ inputs = "box"
    /\ InitCall
    /\ InitDecoderIdle
    /\ InitConcurrentIdle
    /\ waitTimeout = 0
    /\ observed = <<>>
    /\ steps = <<>>
    /\ waitResult = <<>>
    /\ pending = <<>>
    /\ stopLog = <<>>
    /\ entry \in {"pause", "resume"}
    /\ box \in BoxState \cup {"none"}

\* pause() or resume() is called: the POST is sent; observed keeps the cached status
PostCall ==
    /\ entry \in {"pause", "resume"}
    /\ pc = "idle"
    /\ requests' = Append(requests, Post(entry))
    /\ observed' = <<box>>
    /\ pc' = "posting"
    /\ UNCHANGED <<pauseFrame, outcomes, box, steps>>

\* the POST is answered or rejected: then the refresh GET, or the error thrown
PostResponse ==
    /\ pc = "posting"
    /\ \E ok \in BOOLEAN :
        /\ steps' = Append(steps, IF ok THEN "post ok" ELSE "post failed")
        /\ IF RefreshAfterPost(ok)
           THEN /\ requests' = Append(requests, RefreshGet)
                /\ pc' = "refreshingAfter"
                /\ UNCHANGED outcomes
           ELSE /\ outcomes' = Settle(outcomes, Failure("request failed"))
                /\ pc' = "done"
                /\ UNCHANGED requests
    /\ UNCHANGED <<pauseFrame, box, observed>>

\* refresh() answers: this._box = response.data, and the method returns
RefreshAfterResponse ==
    /\ pc = "refreshingAfter"
    /\ \E st \in BoxState : box' = st
    /\ outcomes' = Settle(outcomes, Returned)
    /\ pc' = "done"
    /\ UNCHANGED <<pauseFrame, requests, observed, steps>>

\* refresh() throws: BoxNotFoundError on 404, the request error otherwise
RefreshAfterFails ==
    /\ pc = "refreshingAfter"
    /\ \E e \in {BoxNotFoundError(BoxId), Failure("request failed")} :
          outcomes' = Settle(outcomes, e)
    /\ pc' = "done"
    /\ UNCHANGED <<pauseFrame, requests, box, observed, steps>>

NextPause ==
    \/ PostCall
    \/ PostResponse
    \/ RefreshAfterResponse
    \/ RefreshAfterFails

SpecPause == InitPause /\ [][NextPause]_vars

\* ------------------------------------------------------------- waitSnapshotReady
SnapshotStatus == {"creating", "ready", "restoring", "deleted", "error"}

\* opts?.timeoutMs ?? 5 * 60_000: only an absent timeout takes the default
SnapshotTimeoutDefault == 300000

\* (an absent timeoutMs is written -1)
TimeoutMsOf(t) == IF t < 0 THEN SnapshotTimeoutDefault ELSE t

\* ["error", "deleted"].includes(snap.status)
OnlyErrorThrows == {"error"}

SnapshotFailedStates == {"error", "deleted"}

SnapshotEndedError(st) == [kind |-> "Error", message |-> "ended with status", status |-> st]

SnapshotNotReadyError(t) == [kind |-> "Error", message |-> "did not become ready within", timeout |-> t]

SnapshotGet == [kind |-> "get", path |-> "snapshot"]

\* one turn of the loop after getSnapshot answered st: Returned, the error
\* thrown, or << >> to sleep and fetch again
SnapshotTurn(st, t0, t) ==
    IF st = "ready" THEN <<Returned>>
    ELSE IF st \in SnapshotFailedStates THEN <<SnapshotEndedError(st)>>
    ELSE IF t - t0 > TimeoutMsOf(waitTimeout) THEN <<SnapshotNotReadyError(TimeoutMsOf(waitTimeout))>>
    ELSE <<>>

snapshotFrame ==
    <<opts, commandId, cmd, cancel, deadlineHit, streamVars, impl, inputs, cursorVars,
      decoderVars, concVars, entry, box, waitResult, pending, stopLog, steps>>

InitSnapshotWait ==
    /\ opts = [onStdout |-> FALSE, onStderr |-> FALSE]
    /\ impl = "current"
    /\ inputs = "box"
    /\ InitCall
    /\ InitDecoderIdle
    /\ InitConcurrentIdle
    /\ InitBoxIdle
    /\ entry = "waitSnapshotReady"

\* waitSnapshotReady(id, opts): t0, then the first getSnapshot
WaitSnapshotReadyCall ==
    /\ entry = "waitSnapshotReady"
    /\ pc = "idle"
    /\ \E t \in {-1} \cup 0..MaxTimeout : waitTimeout' = t
    /\ startTime' = now
    /\ requests' = Append(requests, SnapshotGet)
    /\ pc' = "snapFetching"
    /\ UNCHANGED <<snapshotFrame, now, outcomes, observed>>

\* the clock moves while the call waits for an answer or sleeps
SnapshotTick ==
    /\ pc \in {"snapFetching", "snapSleeping"}
    /\ now < MaxNow
    /\ now' = now + 1
    /\ UNCHANGED <<snapshotFrame, startTime, waitTimeout, requests, outcomes, observed, pc>>

\* getSnapshot answers
SnapshotFetched ==
    /\ pc = "snapFetching"
    /\ \E st \in SnapshotStatus :
        /\ observed' = Append(observed, st)
        /\ LET turn == SnapshotTurn(st, startTime, now)
           IN  IF turn = <<>>
               THEN pc' = "snapSleeping" /\ UNCHANGED outcomes
               ELSE pc' = "done" /\ outcomes' = Settle(outcomes, turn[1])
    /\ UNCHANGED <<snapshotFrame, now, startTime, waitTimeout, requests>>

\* getSnapshot throws: so does waitSnapshotReady
SnapshotFetchFails ==
    /\ pc = "snapFetching"
    /\ outcomes' = Settle(outcomes, Failure("request failed"))
    /\ pc' = "done"
    /\ UNCHANGED <<snapshotFrame, now, startTime, waitTimeout, requests, observed>>

\* pollMs elapses: the next getSnapshot
SnapshotSleepWake ==
    /\ pc = "snapSleeping"
    /\ Len(requests) < MaxRefreshes
    /\ requests' = Append(requests, SnapshotGet)
    /\ pc' = "snapFetching"
    /\ UNCHANGED <<snapshotFrame, now, startTime, waitTimeout, outcomes, observed>>

NextSnapshotWait ==
    \/ WaitSnapshotReadyCall
    \/ SnapshotTick
    \/ SnapshotFetched
    \/ SnapshotFetchFails
    \/ SnapshotSleepWake

SpecSnapshotWait == InitSnapshotWait /\ [][NextSnapshotWait]_vars

\* ------------------------------------------------------------- waiting, with progress
\* waitUntilReady for a box that stays in one status that is neither ready nor
\* failed, every refresh answered with the box; the clock is in milliseconds.
StuckStates == BoxState \ ({RUNNING} \cup BoxFailedStates)

InitWaitLive ==
    /\ InitBox
    /\ entry = "waitUntilReady"

RefreshStuck ==
    RefreshAnswers({st \in StuckStates : observed = <<>> \/ st = observed[Len(observed)]})

\* await new Promise((resolve) => setTimeout(resolve, pollInterval)): the next
\* refresh, pollInterval later.  The deadline ends the loop, no cap is needed.
WaitSleepElapses ==
    /\ pc = "sleeping"
    /\ now' = now + PollIntervalMs
    /\ steps' = Append(steps, "refresh")
    /\ pc' = "refreshing"
    /\ UNCHANGED <<runFrame, startTime, outcomes, entry, box, waitTimeout, observed, waitResult, pending, stopLog>>

NextWaitLive ==
    \/ WaitUntilReadyCall
    \/ RefreshStuck
    \/ WaitSleepElapses

\* every refresh is answered and every timer fires
SpecWaitLive ==
    /\ InitWaitLive
    /\ [][NextWaitLive]_vars
    /\ WF_vars(RefreshStuck)
    /\ WF_vars(WaitSleepElapses)

\* ------------------------------------------------------------- properties
Settled == outcomes # <<>>

Outcome == outcomes[1]

IsTerminalEvent(ev) == ev.data # MalformedJson /\ ev.event \in {"end", "error", "timeout"}

\* no end, error or timeout event has been interpreted
NoTerminalSeen == \A i \in DOMAIN seen : ~IsTerminalEvent(seen[i])

LastStatusOf(evs) ==
    LET idx == {i \in DOMAIN evs : evs[i].event = "status" /\ evs[i].data # MalformedJson}
    IN  IF idx = {} THEN QUEUED
        ELSE LET m == CHOOSE i \in idx : \A j \in idx : j <= i
             IN  GetOr(evs[m].data, "status", "undefined")

\* the command has not ended as far as the call was told: no end, error or timeout
\* event and no terminal status
CommandNotEnded == NoTerminalSeen /\ LastStatusOf(seen) \notin TerminalStates

\* the remote side supplied an exit code (snapshot field, or a status event's field)
ExitSupplied ==
    IF UseStreaming(opts)
    THEN \E i \in DOMAIN seen :
            seen[i].event = "status" /\ seen[i].data # MalformedJson /\ Has(seen[i].data, "exit_code")
    ELSE Has(cmd, "exit_code")

\* C1: a run call hands the caller at most one outcome, and exactly one once the
\* call is over (returned, threw, or its connection is closed): a second resolve
\* or reject, or a stream 'end' after a rejection, adds none.
C1_ExactlyOneOutcome == Len(outcomes) <= 1 /\ (pc = "done" => Len(outcomes) = 1)

\* the stream ended after an end event with status "timeout" had rejected the call
C1_Witness ==
    /\ pc = "done"
    /\ stream = "ended"
    /\ Len(outcomes) = 1
    /\ Outcome.kind = "CommandTimeoutError"

C3_OneSubmission == Count("submit") <= 1 /\ (pc # "idle" => Count("submit") = 1)

\* a polling call that fetched more than one snapshot and is over
C3_Witness == pc = "done" /\ Count("get") >= 2 /\ Count("submit") = 1

\* C4 (as claimed): a result for which the remote side supplied no exit code has
\* exit code 0 when its state is Done and 1 when it is Failed or Error, in both
\* transports.
C4_ExitCodeDefault ==
    (Settled /\ Outcome.kind = "result" /\ ~ExitSupplied) =>
        /\ Outcome.state = DONE => Outcome.exitCode = 0
        /\ Outcome.state \in {FAILED, ERROR} => Outcome.exitCode = 1

C6_NoWaitOnCancel == cancel = "inflight" => Settled

\* C7: when the cancel request fails, the call's error is the CommandTimeoutError
\* with the configured timeout, and, the deadline branch having failed the call,
\* with that command's id; never the cancel request's error.
C7_CancelFailureSwallowed ==
    (cancel = "failed") =>
        /\ Settled
        /\ Outcome.kind = "CommandTimeoutError"
        /\ Outcome.timeout = TimeoutOf(opts)
        /\ NoTerminalSeen => Outcome.commandId = commandId

\* a polling call whose cancel request failed
C7_Witness == cancel = "failed" /\ ~UseStreaming(opts) /\ pc = "done"

\* the stream's first terminal event is an end event that ends the command with status st
StreamEndedWith(st) ==
    \E i \in DOMAIN seen :
        /\ seen[i].event = "end" /\ seen[i].data # MalformedJson
        /\ \A j \in 1..(i - 1) : ~IsTerminalEvent(seen[j])
        /\ LET last == LastStatusOf(SubSeq(seen, 1, i - 1))
               endStatus == GetOr(seen[i].data, "status", "")
           IN  \/ endStatus = "error" /\ st = ERROR
               \/ endStatus = st /\ last = st

\* C8: a command that ends Failed or Error (terminal snapshot; status event
\* followed by its end event, or end event with status "error") gives a result
\* with that state, not an error.
C8_FailureIsAResult ==
    \A st \in {FAILED, ERROR} :
        /\ (~UseStreaming(opts) /\ cmd.status = st) =>
              (Settled /\ Outcome.kind = "result" /\ Outcome.state = st)
        /\ (UseStreaming(opts) /\ StreamEndedWith(st)) =>
              (Settled /\ Outcome.kind = "result" /\ Outcome.state = st)

\* a stream reported status Failed and then ended
C8_Witness ==
    /\ UseStreaming(opts)
    /\ StreamEndedWith(FAILED)
    /\ Settled /\ Outcome.kind = "result" /\ Outcome.state = FAILED

RECURSIVE ConcatField(_, _)
ConcatField(evs, f) ==
    IF evs = <<>> THEN E
    ELSE (IF Head(evs).event = "output" /\ Head(evs).data # MalformedJson
          THEN GetOr(Head(evs).data, f, E) ELSE E) \o ConcatField(Tail(evs), f)

\* the stream told one remote execution: start and output events, one status
\* event with a terminal status, then the end event with that status
CoherentStream ==
    /\ Len(seen) >= 2
    /\ LET n == Len(seen)
       IN  /\ seen[n].event = "end"
           /\ seen[n - 1].event = "status"
           /\ seen[n - 1].data.status \in TerminalStates
           /\ seen[n].data.status = seen[n - 1].data.status
           /\ \A i \in 1..(n - 2) : seen[i].event \in {"start", "output"}

\* that execution as the snapshot a poll would have fetched
ExecutionSnapshot ==
    LET n == Len(seen)
        base == [status |-> seen[n - 1].data.status,
                 stdout |-> ConcatField(seen, "stdout"),
                 stderr |-> ConcatField(seen, "stderr")]
    IN  IF Has(seen[n - 1].data, "exit_code")
        THEN [f \in DOMAIN base \cup {"exit_code"} |->
                IF f = "exit_code" THEN seen[n - 1].data.exit_code ELSE base[f]]
        ELSE base

\* C9 (as claimed): a streaming call that was told a remote execution returns
\* the result the polling transport returns for the terminal snapshot of the same
\* execution.
C9_TransportsAgree ==
    (UseStreaming(opts) /\ CoherentStream /\ Settled) => Outcome = PollResult(ExecutionSnapshot)

\* lines, in order, are consecutive pieces of text: each starts where the one
\* before stopped, holds no line break, and is followed by the line break it
\* consumed or (non-empty) by the next piece; together they reach the end of text
RECURSIVE Covers(_, _)
Covers(lines, text) ==
    IF lines = <<>> THEN text = <<>>
    ELSE LET l == Head(lines)
             n == Len(l)
         IN  /\ n <= Len(text)
             /\ SubSeq(text, 1, n) = l
             /\ \A i \in 1..n : l[i] # "\n"
             /\ \/ /\ n < Len(text)
                   /\ text[n + 1] = "\n"
                   /\ Covers(Tail(lines), SubSeq(text, n + 2, Len(text)))
                \/ /\ n > 0
                   /\ Covers(Tail(lines), SubSeq(text, n + 1, Len(text)))

\* the output the call has been given so far: the last snapshot's cumulative
\* text, or the fragments of the output events in arrival order
Delivered(f) == IF impl = "cursor" THEN GetOr(cmd, f, E) ELSE ConcatField(seen, f)

\* C10: the arguments of the stdout (stderr) callback are, in call order,
\* consecutive pieces of the output delivered so far: increasing offsets,
\* nothing twice, nothing skipped; an unregistered callback is never called.
C10_OrderedOnce ==
    /\ IF opts.onStdout THEN Covers(cbOut, Delivered("stdout")) ELSE cbOut = <<>>
    /\ IF opts.onStderr THEN Covers(cbErr, Delivered("stderr")) ELSE cbErr = <<>>

\* cursor polling: "a" was observed, then "a\n": one call for the partial line and
\* one more, for its end, on the second snapshot
C10_Witness ==
    /\ impl = "cursor"
    /\ Count("get") >= 2
    /\ GetOr(cmd, "stdout", E) = <<"a", "\n">>
    /\ cbOut = << <<"a">>, <<>> >>

\* the records the handler decodes from the whole wire text delivered as one chunk
WholeDecoded == DecodeChunk(<<>>, wire).records

\* C11 (as claimed): once every byte of the wire text has arrived, however it was
\* cut into chunks, the records decoded are those decoded from the whole text
\* delivered as a single chunk.
C11_ChunkBoundaryInvariance == nDelivered = Len(wire) => decoded = WholeDecoded

\* the same for wire texts of ASCII bytes only
AsciiOnly == \A i \in DOMAIN wire : wire[i] \notin LeadBytes \cup ContinuationBytes

ChunkBoundaryInvarianceAscii == (AsciiOnly /\ nDelivered = Len(wire)) => decoded = WholeDecoded

\* ------------------------------------------------------------- stream endings
LastExitOf(evs) ==
    LET idx == {i \in DOMAIN evs : evs[i].event = "status" /\ evs[i].data # MalformedJson
                                     /\ Has(evs[i].data, "exit_code")}
    IN  IF idx = {} THEN 0
        ELSE LET m == CHOOSE i \in idx : \A j \in idx : j <= i
             IN  evs[m].data.exit_code

\* the result the events evs add up to: accumulated output, last exit code, last status
Accumulated(evs) ==
    Result(ConcatField(evs, "stdout"), ConcatField(evs, "stderr"), LastExitOf(evs), LastStatusOf(evs))

\* seen[i] is the first end, error or timeout event interpreted
FirstTerminal(i) ==
    /\ i \in DOMAIN seen
    /\ IsTerminalEvent(seen[i])
    /\ \A j \in 1..(i - 1) : ~IsTerminalEvent(seen[j])

Before(i) == SubSeq(seen, 1, i - 1)

\* C12: when the connection closes before any end, error or timeout event was
\* interpreted, the call resolves with the result accumulated so far: the output
\* of the output events, the last exit code and the last status seen.
C12_PartialResultOnClose ==
    (stream = "ended" /\ NoTerminalSeen) =>
        (pc = "done" /\ Settled /\ Outcome = Accumulated(seen))

\* the connection closed after output and a status, before any end event
C12_Witness ==
    /\ stream = "ended"
    /\ NoTerminalSeen
    /\ ConcatField(seen, "stdout") # E
    /\ LastStatusOf(seen) = FAILED
    /\ Outcome.kind = "result"

\* C13 (as claimed): once an end, error or timeout event has been interpreted the
\* connection is destroyed and that event is the last one interpreted: no later
\* event reaches a callback, the accumulated state or the cancel request.
C13_ClosedAfterTerminal ==
    \A i \in DOMAIN seen :
        IsTerminalEvent(seen[i]) => (i = Len(seen) /\ stream = "destroyed" /\ pc = "done")

\* C14: the first end event that terminates a stream decides the call: status
\* "timeout" fails it with CommandTimeoutError, status "error" resolves it with
\* state Error, any other status resolves it with the last status seen; a result
\* carries the output and exit code accumulated before the end event.
C14_EndEventOutcome ==
    \A i \in DOMAIN seen :
        (FirstTerminal(i) /\ seen[i].event = "end") =>
            /\ Settled
            /\ LET status == GetOr(seen[i].data, "status", "")
                   acc == Accumulated(Before(i))
               IN  IF status = "timeout" THEN Outcome.kind = "CommandTimeoutError"
                   ELSE IF status = "error" THEN Outcome = [acc EXCEPT !.state = ERROR]
                   ELSE Outcome = acc

\* output, then an end event with status "timeout": an error, the output is lost
C14_Witness ==
    /\ Len(seen) >= 2
    /\ FirstTerminal(Len(seen))
    /\ seen[Len(seen)].event = "end"
    /\ seen[Len(seen)].data.status = "timeout"
    /\ ConcatField(seen, "stdout") # E
    /\ Outcome.kind = "CommandTimeoutError"

\* C15: an error event that is the first terminal event fails the call with its
\* message, a timeout event with CommandTimeoutError, in the chunk that carries
\* it: the call is over, no end event was needed, no result is returned.
C15_ErrorAndTimeoutEvents ==
    \A i \in DOMAIN seen :
        (FirstTerminal(i) /\ seen[i].event \in {"error", "timeout"}) =>
            /\ Settled
            /\ pc = "done"
            /\ i = Len(seen)
            /\ IF seen[i].event = "error"
               THEN Outcome = Failure(GetOr(seen[i].data, "error", "undefined"))
               ELSE Outcome.kind = "CommandTimeoutError"

\* output, then an error event: the call failed with the event's message
C15_Witness ==
    /\ Len(seen) >= 2
    /\ seen[Len(seen)].event = "error"
    /\ FirstTerminal(Len(seen))
    /\ ConcatField(seen, "stdout") # E
    /\ Outcome = Failure("boom")

\* the command id of the most recent start event, "" if none
LastStartId(evs) ==
    LET idx == {i \in DOMAIN evs : evs[i].event = "start" /\ evs[i].data # MalformedJson
                                     /\ GetOr(evs[i].data, "command_id", "") # ""}
    IN  IF idx = {} THEN ""
        ELSE LET m == CHOOSE i \in idx : \A j \in idx : j <= i
             IN  evs[m].data.command_id

\* the command id known when the call failed: polling, the submitted command's;
\* streaming, the last start event's before the event that failed the call
IdAtFailure ==
    IF ~UseStreaming(opts) THEN commandId
    ELSE IF \E i \in DOMAIN seen : FirstTerminal(i)
         THEN LastStartId(Before(CHOOSE i \in DOMAIN seen : FirstTerminal(i)))
    ELSE LastStartId(seen)

\* C16 (as claimed): every CommandTimeoutError carries the command id known when
\* it was raised and the configured timeout, whether the client deadline, a
\* timeout event or an end event with status "timeout" raised it.
C16_TimeoutErrorCarriesId ==
    (Settled /\ Outcome.kind = "CommandTimeoutError") =>
        /\ Outcome.commandId = IdAtFailure
        /\ Outcome.timeout = TimeoutOf(opts)

\* C17: a call without a timeout option takes no deadline branch: no cancel
\* request, and a CommandTimeoutError only when the remote side reported the
\* timeout through an event.
C17_NoDeadlineWithoutTimeout ==
    ~Has(opts, "timeout") =>
        /\ ~deadlineHit
        /\ Count("cancel") = 0
        /\ cancel = "none"
        /\ (Settled /\ Outcome.kind = "CommandTimeoutError") => ~NoTerminalSeen

\* no timeout option, the clock has run out, the command is still running and
\* the call still polls
C17_Witness ==
    /\ ~Has(opts, "timeout")
    /\ now = MaxNow
    /\ Count("get") >= 2
    /\ cmd.status = RUNNING
    /\ pc = "sleeping"
    /\ ~Settled

\* ------------------------------------------------------------- readiness
LastObserved == observed[Len(observed)]

\* C18: as soon as a refresh of waitUntilReady observes FAILED, ERROR, STOPPED or
\* FINISHED the call has thrown BoxTimeoutError, deadline elapsed or not, and
\* that refresh was its last request: one refresh per observation, one sleep
\* before each but the first, none after.
C18_FailedBoxFailsAtOnce ==
    (observed # <<>> /\ LastObserved \in {FAILED, ERROR, STOPPED, FINISHED}) =>
        /\ waitResult = <<BoxTimeoutError(BoxId, MaxTimeoutOf(waitTimeout))>>
        /\ pc \notin {"refreshing", "sleeping"}
        /\ StepCount("refresh") = Len(observed)
        /\ StepCount("sleep") = Len(observed) - 1
        /\ entry = "waitUntilReady" => (pc = "done" /\ outcomes = waitResult)

\* statuses [booting, failed], the deadline not elapsed: BoxTimeoutError
C18_Witness ==
    /\ entry = "waitUntilReady"
    /\ observed = <<BOOTING, FAILED>>
    /\ ~WaitDeadlinePassed(startTime, now)
    /\ outcomes = <<BoxTimeoutError(BoxId, MaxTimeoutOf(waitTimeout))>>

\* C19: waitUntilReady returns normally exactly when a refresh observes RUNNING:
\* it has returned iff the last observation is RUNNING; then RUNNING was not
\* observed before, no observation before it was a failed state, and the number
\* of status requests is the position of that observation.
C19_ReadyExactlyOnRunning ==
    /\ waitResult = <<Returned>> <=> (observed # <<>> /\ LastObserved = RUNNING)
    /\ waitResult = <<Returned>> =>
          /\ \A i \in 1..(Len(observed) - 1) :
                observed[i] \notin {RUNNING, FAILED, ERROR, STOPPED, FINISHED, "none"}
          /\ StepCount("refresh") = Len(observed)
          /\ StepCount("sleep") = Len(observed) - 1
    /\ (entry = "waitUntilReady" /\ Settled /\ Outcome = Returned) => waitResult = <<Returned>>

\* statuses [booting, booting, running]: returned after three status requests
C19_Witness ==
    /\ entry = "waitUntilReady"
    /\ observed = <<BOOTING, BOOTING, RUNNING>>
    /\ StepCount("refresh") = 3
    /\ outcomes = <<Returned>>

\* the createBox / waitUntilReady / callback / stop calls of withSandbox, in order
RECURSIVE TopSteps(_)
TopSteps(st) ==
    IF st = <<>> THEN <<>>
    ELSE (IF Head(st) \in {"createBox", "waitUntilReady", "callback", "stop"}
          THEN <<Head(st)>> ELSE <<>>) \o TopSteps(Tail(st))

IsPrefix(a, b) == Len(a) <= Len(b) /\ SubSeq(b, 1, Len(a)) = a

\* C20: withSandbox calls createBox, waitUntilReady, the callback and stop in
\* that order, the callback only after waitUntilReady returned; stop is called at
\* most once, and exactly once when the call is over and createBox had succeeded
\* (callback returned, callback threw, waitUntilReady threw).
C20_SandboxLifecycle ==
    entry = "withSandbox" =>
        /\ \/ IsPrefix(TopSteps(steps), <<"createBox", "waitUntilReady", "callback", "stop">>)
           \/ TopSteps(steps) = <<"createBox", "waitUntilReady", "stop">>
        /\ StepCount("callback") > 0 => waitResult = <<Returned>>
        /\ (StepCount("stop") > 0 /\ StepCount("callback") = 0) =>
              (waitResult # <<>> /\ waitResult # <<Returned>>)
        /\ StepCount("stop") <= 1
        /\ (pc = "done" /\ StepCount("waitUntilReady") > 0) => StepCount("stop") = 1
        /\ (pc = "done" /\ StepCount("waitUntilReady") = 0) => StepCount("stop") = 0

\* waitUntilReady threw on a failed box: no callback, stop called once, the
\* error reaches the caller
C20_Witness ==
    /\ entry = "withSandbox"
    /\ pc = "done"
    /\ TopSteps(steps) = <<"createBox", "waitUntilReady", "stop">>
    /\ Outcome.kind = "BoxTimeoutError"

\* ------------------------------------------------------------- cleanup
\* the value or error the body of withSandbox ended with
BodyOutcome == IF StepCount("callback") > 0 THEN pending[1] ELSE waitResult[1]

\* C21: once withSandbox is over after createBox succeeded, its outcome is the
\* outcome of its body: the callback's value or error, or the error of
\* waitUntilReady when the callback never ran; also when stop failed and was
\* logged.
C21_SandboxOutcomeIsBody ==
    (entry = "withSandbox" /\ pc = "done" /\ StepCount("waitUntilReady") > 0) =>
        /\ outcomes = <<BodyOutcome>>
        /\ StepCount("callback") > 0 => Outcome.kind \in {"value", "Error"}
        /\ StepCount("callback") = 0 =>
              Outcome.kind \in {"BoxTimeoutError", "BoxNotFoundError", "Error"}

\* the callback returned a value, stop failed and was logged: the value is returned
C21_Witness ==
    /\ entry = "withSandbox"
    /\ pc = "done"
    /\ StepCount("console.error") = 1
    /\ Outcome.kind = "value"

\* C22: a stop() call sends a DELETE exactly when the cached status is not
\* STOPPED, FINISHED, FAILED or ERROR (one request per such call); a successful
\* DELETE leaves a loaded handle STOPPED, so the next stop() sends none; a
\* failed DELETE, or no DELETE, leaves the cached status as it was.
C22_StopIdempotent ==
    /\ \A i \in DOMAIN stopLog :
          LET e == stopLog[i]
          IN  /\ e.sent <=> e.before \notin {STOPPED, FINISHED, FAILED, ERROR}
              /\ (e.answer = "ok" /\ e.before # "none") => e.after = STOPPED
              /\ (e.answer = "ok" /\ e.before = "none") => e.after = "none"
              /\ e.answer \in {"failed", "none", "pending"} => e.after = e.before
              /\ (i < Len(stopLog) /\ e.answer = "ok" /\ e.before # "none") => ~stopLog[i + 1].sent
              /\ i < Len(stopLog) => stopLog[i + 1].before = e.after
    /\ StepCount("delete") = Cardinality({i \in DOMAIN stopLog : stopLog[i].sent})
    /\ stopLog # <<>> => box = stopLog[Len(stopLog)].after

\* a running box stopped twice: one DELETE, the second call sends none
C22_Witness ==
    /\ entry = "stop"
    /\ Len(stopLog) = 2
    /\ stopLog[1].before = RUNNING
    /\ stopLog[1].answer = "ok"
    /\ ~stopLog[2].sent
    /\ StepCount("delete") = 1

\* ------------------------------------------------------------- frames
\* the text after prefix on the last of lines that starts with prefix, << >> if none
LastRemainder(lines, prefix) ==
    LET idx == {i \in DOMAIN lines : StartsWith(lines[i], prefix)}
    IN  IF idx = {} THEN <<>>
        ELSE LET m == CHOOSE i \in idx : \A j \in idx : j <= i
             IN  SubSeq(lines[m], Len(prefix) + 1, Len(lines[m]))

\* the record of a frame with these lines: both remainders, if neither is empty
FrameRecord(lines) ==
    LET e == LastRemainder(lines, EventPrefix)
        d == LastRemainder(lines, DataPrefix)
    IN  IF e # <<>> /\ d # <<>> THEN <<[event |-> e, data |-> d]>> ELSE <<>>

\* frame by frame, the records of the frames between blank lines; trimmed: the
\* lines are those of the frame with the white space at its two ends removed
RECURSIVE RecordsOf(_, _)
RecordsOf(frames, trimmed) ==
    IF frames = <<>> THEN <<>>
    ELSE LET f == Head(frames)
         IN  (IF TrimText(f) = <<>> THEN <<>>
              ELSE FrameRecord(Split(IF trimmed THEN TrimText(f) ELSE f, "\n")))
             \o RecordsOf(Tail(frames), trimmed)

\* C23 (as claimed): each frame gives a record exactly when its last
\* "event: " line and its last "data: " line both have a non-empty remainder,
\* the record holding those remainders; other frames give nothing and change
\* nothing for the frames after them.
C23_RecordIffBothLines ==
    nDelivered = Len(wire) => decoded = RecordsOf(SplitBlankText(wire), FALSE)

\* C23 (amended): the same, the lines of a frame being those left after white
\* space is removed from both ends of the frame.
C23_RecordIffBothLinesTrimmed ==
    nDelivered = Len(wire) => decoded = RecordsOf(SplitBlankText(wire), TRUE)

\* a frame without a data line, then a frame that repeats both prefixes: one
\* record, of the last occurrences
C23_Witness ==
    /\ inputs = "frames"
    /\ nDelivered = Len(wire)
    /\ Len(SplitBlankText(wire)) = 3
    /\ SplitBlankText(wire)[1] = EventPrefix \o <<"o">>
    /\ decoded = <<[event |-> <<"p">>, data |-> <<"y">>]>>

\* ------------------------------------------------------------- output tracker
\* the lines of a piece of text: one per line break, then the rest if not empty
RECURSIVE LinesOf(_)
LinesOf(text) ==
    IF text = <<>> THEN <<>>
    ELSE LET breaks == {i \in DOMAIN text : text[i] = "\n"}
         IN  IF breaks = {} THEN <<text>>
             ELSE LET k == CHOOSE i \in breaks : \A j \in breaks : i <= j
                  IN  <<SubSeq(text, 1, k - 1)>> \o LinesOf(SubSeq(text, k + 1, Len(text)))

\* this step is the arrival of a snapshot at a polling call with callbacks
SnapshotStep ==
    /\ impl = "cursor"
    /\ pc = "fetching"
    /\ pc' # "fetching"
    /\ ~(outcomes' # outcomes /\ outcomes'[1].kind = "Error")

\* C24: when a snapshot with cumulative output s2 follows one with s1 (the empty
\* text before the first), a registered callback is called with exactly the
\* lines of s2 after the first len(s1) characters, not at all when there are
\* none, and the command's cursor is len(s2) for as long as the command has one
\* (it is removed with the terminal snapshot).
C24_SuffixLines ==
    [][SnapshotStep =>
        LET out1 == GetOr(cmd, "stdout", E)
            out2 == GetOr(cmd', "stdout", E)
            err1 == GetOr(cmd, "stderr", E)
            err2 == GetOr(cmd', "stderr", E)
        IN  /\ opts.onStdout =>
                  /\ cbOut' = cbOut \o LinesOf(SubSeq(out2, Len(out1) + 1, Len(out2)))
                  /\ cmd'.status \notin {DONE, FAILED, ERROR} =>
                        lastStdoutPositions'[commandId] = Len(out2)
            /\ opts.onStderr =>
                  /\ cbErr' = cbErr \o LinesOf(SubSeq(err2, Len(err1) + 1, Len(err2)))
                  /\ cmd'.status \notin {DONE, FAILED, ERROR} =>
                        lastStderrPositions'[commandId] = Len(err2)
    ]_vars

\* "a" was observed, then "aa\n": the second observation called the callback
\* once, with "a", and the cursor is 3
C24_Witness ==
    /\ impl = "cursor"
    /\ pc = "sleeping"
    /\ Count("get") = 2
    /\ GetOr(cmd, "stdout", E) = <<"a", "a", "\n">>
    /\ cbOut = << <<"a">>, <<"a">> >>
    /\ lastStdoutPositions[commandId] = 3

\* ------------------------------------------------------------- tolerance
\* this step interpreted new events, all of them with a payload that does not parse
OnlyMalformedAdded ==
    /\ Len(seen') > Len(seen)
    /\ \A i \in (Len(seen) + 1)..Len(seen') : seen'[i].data = MalformedJson

\* C25: a step that interprets only frames whose payload does not parse, the
\* deadline branch not taken, changes neither the accumulated output, status,
\* exit code and command id, nor the callbacks' calls, nor the call's outcome,
\* and leaves the connection open; and as long as no end, error or timeout
\* event was interpreted, every frame that arrived has been interpreted, those
\* after a bad frame in the same chunk included.
C25_MalformedIgnored ==
    [][/\ (OnlyMalformedAdded /\ deadlineHit' = deadlineHit) =>
             UNCHANGED <<stdout, stderr, state, exitCode, commandId, cbOut, cbErr,
                         outcomes, stream, pc, requests, cancel>>
       /\ NoTerminalSeen' => seen' = arrived'
    ]_vars

\* one chunk with a bad output frame and a good one, then an end event: the
\* good frame's output is in the result
C25_Witness ==
    /\ inputs = "protocol"
    /\ nChunks = 2
    /\ Len(seen) = 3
    /\ seen[1].data = MalformedJson
    /\ seen[3].event = "end"
    /\ Settled
    /\ Outcome.kind = "result"
    /\ Outcome.stdout = <<"a", "\n">>

StatusRank(st) == IF st = QUEUED THEN 0 ELSE IF st = RUNNING THEN 1 ELSE 2

\* the furthest status any status event interpreted so far has carried
FurthestSeen ==
    LET ranks == {StatusRank(seen[i].data.status) :
                    i \in {j \in DOMAIN seen : seen[j].event = "status" /\ seen[j].data # MalformedJson
                                                   /\ Has(seen[j].data, "status")}}
    IN  IF ranks = {} THEN 0 ELSE CHOOSE r \in ranks : \A q \in ranks : q <= r

\* C26 (as claimed): the tracked status never falls behind a status already
\* observed, and a result never reports one that does.
C26_StatusForwardOnly ==
    /\ StatusRank(state) >= FurthestSeen
    /\ (Settled /\ Outcome.kind = "result") => StatusRank(Outcome.state) >= FurthestSeen

\* ------------------------------------------------------------- polling
\* C27: a polling call has a result exactly when the last snapshot it received
\* is terminal, which ends the call at once: the result carries that snapshot's
\* status and output, absent output as the empty text.  After a Queued or Running
\* snapshot within the deadline the call sleeps or fetches again; it has no
\* result.
C27_ResultOnFirstTerminal ==
    ~UseStreaming(opts) =>
        /\ (Settled /\ Outcome.kind = "result") <=> cmd.status \in {DONE, FAILED, ERROR}
        /\ cmd.status \in {DONE, FAILED, ERROR} =>
              /\ pc = "done"
              /\ Outcome.state = cmd.status
              /\ Outcome.stdout = (IF Has(cmd, "stdout") THEN cmd.stdout ELSE E)
              /\ Outcome.stderr = (IF Has(cmd, "stderr") THEN cmd.stderr ELSE E)
              /\ requests[Len(requests)].kind = "get"
        /\ (cmd.status \in {QUEUED, RUNNING} /\ ~deadlineHit) =>
              \/ pc \in {"sleeping", "fetching"}
              \/ pc = "done" /\ Outcome.kind = "Error"

\* a Running snapshot, then a Failed one with output: the result is the second's
C27_Witness ==
    /\ ~UseStreaming(opts)
    /\ Count("get") = 2
    /\ cmd.status = FAILED
    /\ Has(cmd, "stdout")
    /\ Outcome = Result(<<"a", "\n">>, <<"b">>, 1, FAILED)

\* C28 (as claimed): once a polling call with callbacks has finished, with any
\* outcome, neither cursor map holds an entry for its command.
C28_CursorsOnlyInFlight ==
    (impl = "cursor" /\ pc = "done") =>
        /\ commandId \notin DOMAIN lastStdoutPositions
        /\ commandId \notin DOMAIN lastStderrPositions

\* ------------------------------------------------------------- concurrency
\* C29: whatever the interleaving of two polling calls on one handle, each call's
\* callback has been called with consecutive pieces of exactly the output its own
\* snapshots showed, and while a call polls its cursor is there and equals the
\* length of the output it has observed, whatever the other call did.
C29_CallsDoNotInterfere ==
    calls # <<>> =>
        \A c \in CallIds :
            /\ Covers(calls[c].cbOut, calls[c].cmdOut)
            /\ calls[c].pc \in {"fetching", "sleeping"} =>
                  /\ calls[c].commandId \in DOMAIN lastStdoutPositions
                  /\ lastStdoutPositions[calls[c].commandId] = Len(calls[c].cmdOut)
                  /\ calls[c].commandId \in DOMAIN lastStderrPositions

\* one call has timed out after its first snapshot, the other has returned
\* after two, each told of its own command's output only
C29_Witness ==
    /\ calls # <<>>
    /\ calls[1].pc = "done" /\ calls[1].outcome[1].kind = "CommandTimeoutError"
    /\ calls[2].pc = "done" /\ calls[2].outcome[1].kind = "result"
    /\ calls[1].cmdOut = <<"a">> /\ Len(calls[1].cbOut) = 1
    /\ calls[2].cmdOut = <<"a", "\n">> /\ Len(calls[2].cbOut) = 2
    /\ calls[2].polls = 2

\* ------------------------------------------------------------- termination
\* C30: a polling run call with a timeout whose requests are all answered
\* eventually settles, and it settles with a result when the last snapshot is
\* terminal and otherwise with CommandTimeoutError, on a non-terminal snapshot
\* that arrived after the deadline; no non-terminal snapshot that arrives after
\* the deadline is followed by a sleep.
C30_EventuallySettles ==
    /\ (pc = "submitting") ~> Settled
    /\ [](Settled =>
            \/ Outcome.kind = "result" /\ cmd.status \in TerminalStates
            \/ /\ Outcome.kind = "CommandTimeoutError"
               /\ cmd.status \in {QUEUED, RUNNING}
               /\ DeadlinePassed(opts, startTime, now))
    /\ [](pc = "sleeping" => ~deadlineHit)
    /\ [][(pc = "fetching" /\ pc' = "sleeping") => ~DeadlinePassed(opts, startTime, now)]_vars

\* the call slept through its whole timeout and was rejected on the third snapshot
C30_Witness ==
    /\ ~UseStreaming(opts) /\ TimeoutOf(opts) # 0
    /\ Settled /\ Outcome.kind = "CommandTimeoutError"
    /\ Count("get") = TimeoutOf(opts) + 2
    /\ cmd.status = QUEUED

\* C31: when the box stays in a status that is neither RUNNING nor one of FAILED,
\* ERROR, STOPPED, FINISHED and every refresh is answered, waitUntilReady
\* eventually throws BoxTimeoutError with the box id and the supplied timeout,
\* or 60000 when none was supplied, and it does so only after that time has passed.
C31_WaitEventuallyTimesOut ==
    /\ (pc = "refreshing") ~> Settled
    /\ [](Settled =>
            /\ Outcome = BoxTimeoutError(BoxId, IF waitTimeout # 0 THEN waitTimeout ELSE WaitTimeoutDefault)
            /\ now - startTime > (IF waitTimeout # 0 THEN waitTimeout ELSE WaitTimeoutDefault)
            /\ pc = "done")

\* a call without a timeout on a paused box has polled for a minute and thrown
C31_Witness ==
    /\ entry = "waitUntilReady" /\ waitTimeout = 0
    /\ Settled /\ Outcome = BoxTimeoutError(BoxId, 60000)
    /\ box = PAUSED
    /\ StepCount("refresh") = 62

\* ------------------------------------------------------------- pause and resume
\* C32: pause() and resume() send the POST first and the refresh GET only after
\* the POST succeeded: on success exactly these two requests in this order; when
\* the POST fails its error is thrown, no refresh is sent and the cached box is
\* as it was.
C32_PostThenRefresh ==
    entry \in {"pause", "resume"} =>
        /\ IsPrefix(requests, <<Post(entry), RefreshGet>>)
        /\ Len(requests) = 2 => steps = <<"post ok">>
        /\ (Settled /\ Outcome = Returned) => requests = <<Post(entry), RefreshGet>>
        /\ steps = <<"post failed">> =>
              /\ requests = <<Post(entry)>>
              /\ pc = "done" /\ Outcome = Failure("request failed")
              /\ box = observed[1]
        /\ pc = "done" => Settled

\* pause() on a running box has returned with the box refreshed to paused
C32_Witness ==
    /\ entry = "pause" /\ observed = <<RUNNING>>
    /\ Settled /\ Outcome = Returned
    /\ box = PAUSED
    /\ requests = <<Post("pause"), RefreshGet>>

\* ------------------------------------------------------------- waitSnapshotReady
\* C33: waitSnapshotReady returns on the first fetch that observes "ready",
\* throws on the first fetch that observes "error" or "deleted" and fetches no
\* more, and throws the did-not-become-ready error when a fetch observes a
\* status that is not final after the deadline; a final status is observed by
\* the last fetch only, so the fetches number the position of the first final
\* observation.
C33_SnapshotWait ==
    /\ [](entry = "waitSnapshotReady" /\ observed # <<>> =>
            LET last == observed[Len(observed)]
                final == {"ready", "error", "deleted"}
            IN  /\ Len(requests) = Len(observed) +
                      (IF pc = "snapFetching" \/ (Settled /\ Outcome = Failure("request failed"))
                       THEN 1 ELSE 0)
                /\ \A i \in 1..(Len(observed) - 1) : observed[i] \notin final
                /\ last = "ready" => pc = "done" /\ Outcome = Returned
                /\ last \in {"error", "deleted"} =>
                      /\ pc = "done" /\ Outcome.kind = "Error"
                      /\ Outcome.message = "ended with status" /\ Outcome.status = last
                /\ (Settled /\ Outcome.kind = "Error" /\ Outcome.message = "did not become ready within") =>
                      /\ last \notin final
                      /\ Outcome.timeout = (IF waitTimeout = -1 THEN 300000 ELSE waitTimeout)
                      /\ now - startTime > Outcome.timeout
                /\ (Settled /\ Outcome = Returned) => last = "ready")
    /\ [][(pc = "snapFetching" /\ pc' = "snapSleeping") =>
            /\ observed'[Len(observed')] \in {"creating", "restoring"}
            /\ now - startTime <= (IF waitTimeout = -1 THEN 300000 ELSE waitTimeout)]_vars

\* the third fetch observed "deleted" after two that observed a snapshot in progress
C33_Witness ==
    /\ entry = "waitSnapshotReady"
    /\ observed = <<"creating", "restoring", "deleted">>
    /\ Len(requests) = 3
    /\ Settled /\ Outcome = SnapshotEndedError("deleted")

\* ------------------------------------------------------------- terminal before deadline
\* C34: a terminal observation wins over the deadline.  Polling: a snapshot with
\* status Done, Failed or Error gives its result, whatever the clock says.
\* Streaming: when the first end, error or timeout event interpreted is an end
\* event (status not "timeout"), the call has its result, whatever the clock said
\* when the chunk was handled.  In both cases no timeout error is raised and no
\* cancel request is sent.
C34_TerminalBeforeDeadline ==
    /\ (~UseStreaming(opts) /\ impl = "current" /\ cmd.status \in TerminalStates) =>
          /\ Settled /\ Outcome = PollResult(cmd)
          /\ Count("cancel") = 0 /\ ~deadlineHit
    /\ (UseStreaming(opts) /\ impl = "current") =>
          \A i \in DOMAIN seen :
              (FirstTerminal(i) /\ seen[i].event = "end" /\ GetOr(seen[i].data, "status", "") # "timeout") =>
                  /\ Settled /\ Outcome.kind = "result"
                  /\ Outcome = [Accumulated(Before(i)) EXCEPT
                                   !.state = IF GetOr(seen[i].data, "status", "") = "error" THEN ERROR ELSE @]
                  /\ Count("cancel") = 0 /\ ~deadlineHit

\* a streaming call whose command id is known got its end event after the
\* deadline and returned the result
C34_Witness ==
    /\ UseStreaming(opts) /\ commandId # ""
    /\ DeadlinePassed(opts, startTime, now)
    /\ Len(seen) >= 2 /\ FirstTerminal(Len(seen)) /\ seen[Len(seen)].event = "end"
    /\ seen[Len(seen)].data.status = DONE
    /\ Settled /\ Outcome.kind = "result"
    /\ Count("cancel") = 0

\* ------------------------------------------------------------- exit codes
\* C35 (as claimed): an exit code supplied by the remote side is the exit code of
\* the result, for every terminal status: the snapshot's exit_code in polling
\* mode, the last status event's exit_code in streaming mode, an exit code of 0
\* with status Failed or Error included.
C35_ExitCodeUnchanged ==
    (impl = "current" /\ Settled /\ Outcome.kind = "result" /\ ExitSupplied) =>
        IF UseStreaming(opts)
        THEN Outcome.state \in TerminalStates => Outcome.exitCode = LastExitOf(seen)
        ELSE Outcome.exitCode = cmd.exit_code

\* ------------------------------------------------------------- character conservation
RECURSIVE Flatten(_)
Flatten(lines) == IF lines = <<>> THEN E ELSE Head(lines) \o Flatten(Tail(lines))

StripLineBreaks(text) == SelectSeq(text, LAMBDA ch : ch # "\n")

\* C36: the arguments passed to the stdout callback during one run call, put
\* together in call order, are the stdout delivered so far without its line
\* breaks; the same for stderr.  Snapshots extend each other (polling with
\* cursors), fragments arrive in output events (streaming).
C36_CharacterConservation ==
    /\ opts.onStdout => Flatten(cbOut) = StripLineBreaks(Delivered("stdout"))
    /\ opts.onStderr => Flatten(cbErr) = StripLineBreaks(Delivered("stderr"))

\* a polling call was told of a line break and of a partial line in two snapshots
C36_Witness ==
    /\ impl = "cursor" /\ opts.onStdout
    /\ Len(cbOut) >= 2
    /\ Delivered("stdout") = <<"a", "\n", "a">>
    /\ Flatten(cbOut) = <<"a", "a">>
    /\ lastStdoutPositions # <<>> /\ lastStdoutPositions[commandId] = 3

\* ------------------------------------------------------------- accumulated output
\* C37 (as claimed): in streaming mode the stdout and the stderr of the returned
\* result are the stdout and the stderr fields of all output events interpreted
\* before the call settled, put together in arrival order, whichever callbacks
\* are registered and whether or not a callback throws.
C37_ResultIsAllOutput ==
    (impl = "current" /\ UseStreaming(opts) /\ pc = "done" /\ Settled /\ Outcome.kind = "result") =>
        /\ Outcome.stdout = ConcatField(seen, "stdout")
        /\ Outcome.stderr = ConcatField(seen, "stderr")

\* ------------------------------------------------------------- request order
\* C38: the requests of one polling run call are the submit POST, then snapshot
\* GETs for the id the submit answered, then at most one cancel POST, each sent
\* only when the one before it has been answered; nothing is sent after a
\* terminal snapshot or after the cancel, and a timeout error is raised only
\* after at least one snapshot was fetched.
C38_RequestsInOrder ==
    /\ []((impl = "current" /\ ~UseStreaming(opts) /\ requests # <<>>) =>
            /\ requests[1] = Submit(FALSE)
            /\ \A i \in 2..Len(requests) :
                  \/ requests[i] = Fetch(commandId) /\ commandId # ""
                  \/ requests[i] = Cancel(commandId) /\ i = Len(requests) /\ i >= 3
            /\ cmd.status \in TerminalStates =>
                  pc = "done" /\ requests[Len(requests)].kind = "get"
            /\ requests[Len(requests)].kind = "cancel" => pc \in {"cancelling", "done"}
            /\ (Settled /\ Outcome.kind = "CommandTimeoutError") =>
                  Count("get") >= 1 /\ Count("cancel") = 1)
    /\ [][(impl = "current" /\ ~UseStreaming(opts) /\ requests' # requests) =>
            /\ Len(requests') = Len(requests) + 1
            /\ SubSeq(requests', 1, Len(requests)) = requests
            /\ LET new == requests'[Len(requests')]
               IN  \/ new.kind = "submit" /\ pc = "idle"
                   \/ new.kind = "get" /\ pc \in {"submitting", "sleeping"} /\ pc' = "fetching"
                   \/ new.kind = "cancel" /\ pc = "fetching" /\ pc' = "cancelling"]_vars

\* a polling call fetched two snapshots, cancelled and threw the timeout error
C38_Witness ==
    /\ ~UseStreaming(opts)
    /\ requests = <<Submit(FALSE), Fetch("c1"), Fetch("c1"), Cancel("c1")>>
    /\ Settled /\ Outcome.kind = "CommandTimeoutError"

\* ------------------------------------------------------------- concurrent stops
\* C39 (as claimed): on a loaded handle whose box is not in an end status, however
\* stop() calls interleave, at most one DELETE is sent for the box (no DELETE
\* having failed).
C39_OneDeleteAcrossStops ==
    (entry = "stops" /\ stopLog # <<>>
        /\ stopLog[1].before \notin {"none", STOPPED, FINISHED, FAILED, ERROR}
        /\ \A i \in DOMAIN stopLog : stopLog[i].answer # "failed") =>
            Cardinality({i \in DOMAIN stopLog : stopLog[i].sent}) <= 1

====
